---------------------------- MODULE Spec2Model ----------------------------
(***************************************************************************)
(* Model of the change-detection engine of WebSentinel (src/lib/diff.js):  *)
(* extractText, countChanges (countCharacterChanges,                       *)
(* longestCommonSubsequenceLength).                                        *)
(*                                                                         *)
(* A JavaScript string is modelled as a sequence of one-character strings. *)
(* An absent argument (undefined / null) is the value Absent.              *)
(***************************************************************************)
EXTENDS Integers, Sequences, FiniteSets, TLC

VARIABLES
  pc,        \* position of the caller: "called" before the function runs, "returned" after
  oldText,   \* countChanges: first argument
  newText,   \* countChanges: second argument
  result,    \* countChanges: returned value (NoResult before the return)
  html,      \* extractText: the argument
  text,      \* extractText: returned value (NoResult before the return)
  prefix,    \* markup X before an inserted script or style region
  opening,   \* the region's opening tag
  body,      \* the region's content S
  closing,   \* the region's closing tag
  suffix,    \* markup Y after the region
  mode,      \* the highlighting asked for: "changes" (highlightChanges), "removed" (highlightRemoved)
  viewOld,   \* the caller's old snapshot
  viewNew,   \* the caller's new snapshot
  oldHtml,   \* highlightChanges: first argument
  newHtml,   \* highlightChanges: second argument
  highlightColor,  \* highlightChanges: third argument
  diff,      \* highlightChanges: the tokens of newHtml with their status
  pos,       \* buildHighlightedHtml: index of the next token of diff
  hl,        \* buildHighlightedHtml: result and inHighlight, with the pieces emitted so far
  out,       \* the markup returned to the caller
  threshold,   \* detectChange: third argument, the page's changeThreshold
  hasChanged,  \* detectChange: the value returned
  now,         \* Date.now()
  pageStore,   \* PageStore.pages: the pages loaded, in the order of the map
  needing,     \* PageStore.getNeedingScan: the pages returned
  syncArea,    \* chrome.storage.sync: the value under each key
  localArea,   \* chrome.storage.local: the value under each key
  storageCall, \* the call of Storage in progress, with what chrome.storage.sync does with it
  storageResult, \* the promise the call of Storage returned, once settled
  htmlStore,   \* the IndexedDB store 'html': the markup under each key
  scan,        \* the call of scanPage in progress: its position, page object and locals
  scans,       \* the number of calls of scanPage so far
  ticks,       \* the number of times the clock has advanced
  baseline,    \* history: the stored new snapshot found by the latest scan that detected a
               \* change, and by the latest one that did so for a page not yet changed
  isScanning,  \* the service worker's flag isScanning
  tasks,       \* the calls of the alarm and message handlers so far, each with its position
  answered     \* history: the ids of the DELETE_PAGE messages answered so far

countVars == <<oldText, newText, result>>

extractVars == <<html, text>>

regionVars == <<prefix, opening, body, closing, suffix>>

detectVars == <<threshold, hasChanged>>

storageVars == <<syncArea, localArea, storageCall, storageResult>>

scanVars == <<htmlStore, scan, scans, ticks, baseline>>

workerVars == <<isScanning, tasks, answered>>

serviceVars == <<now, pageStore, needing, storageVars, scanVars, workerVars>>

highlightVars ==
  <<mode, viewOld, viewNew, oldHtml, newHtml, highlightColor, diff, pos, hl, out>>

vars ==
  <<pc, oldText, newText, result, html, text, prefix, opening, body, closing, suffix,
    mode, viewOld, viewNew, oldHtml, newHtml, highlightColor, diff, pos, hl, out,
    threshold, hasChanged, now, pageStore, needing,
    syncArea, localArea, storageCall, storageResult,
    htmlStore, scan, scans, ticks, baseline, isScanning, tasks, answered>>

-----------------------------------------------------------------------------
(* Values and helpers                                                      *)

\* undefined / null: a value that is no string of characters
Absent == <<"undefined">>

NoResult == <<"no result">>

\* buildHighlightedHtml before its loop: result = '', inHighlight = false
NoHighlightYet == [result |-> <<>>, inHighlight |-> FALSE, emitted |-> <<>>]

\* detectChange is not called
NoDetect == threshold = 0 /\ hasChanged = FALSE

\* no page is loaded
NoPages == pageStore = <<>> /\ needing = <<>>

\* a key without a value in a storage area, and the result of a promise not settled
Missing == "missing"

\* nothing is stored and Storage is not called
NoStorage ==
  /\ syncArea = <<>>
  /\ localArea = <<>>
  /\ storageCall = <<>>
  /\ storageResult = <<>>

\* no call of scanPage
NoScan == [pc |-> "idle"]

\* history of the scans: the stored new snapshot met by the last scan that detected a
\* change, the one met by the last scan that detected a change of a page not marked as
\* changed, and the two stored snapshots at the start of the last scan; none so far
NoBaseline ==
  [detected |-> NoResult, fresh |-> NoResult, oldBefore |-> NoResult, newBefore |-> NoResult]

\* nothing is scanned
NoScans ==
  /\ htmlStore = <<>>
  /\ scan = NoScan
  /\ scans = 0
  /\ ticks = 0
  /\ baseline = NoBaseline

\* the extension does not run
\* no handler of the service worker has been called
NoWorker == isScanning = FALSE /\ tasks = <<>> /\ answered = {}

NoService == now = 0 /\ NoPages /\ NoStorage /\ NoScans /\ NoWorker

\* highlightChanges is not called
NoHighlight ==
  /\ mode = "none"
  /\ viewOld = Absent
  /\ viewNew = Absent
  /\ oldHtml = NoResult
  /\ newHtml = NoResult
  /\ highlightColor = NoResult
  /\ diff = NoResult
  /\ pos = 0
  /\ hl = NoHighlightYet
  /\ out = NoResult

\* no region is inserted into the markup
NoRegion ==
  /\ prefix = <<>>
  /\ opening = <<>>
  /\ body = <<>>
  /\ closing = <<>>
  /\ suffix = <<>>

\* JavaScript truthiness of a string argument: undefined, null and '' are falsy
Falsy(s) == s = Absent \/ s = <<>>

\* the characters matched by the regular expression class \s (those of the model's alphabet)
IsSpace(c) == c \in {" ", "\n", "\t"}

Abs(x) == IF x < 0 THEN -x ELSE x

Max(x, y) == IF x >= y THEN x ELSE y

Min(x, y) == IF x <= y THEN x ELSE y

Min3(x, y, z) == Min(x, Min(y, z))

\* the elements of a finite set of integers in increasing order
RECURSIVE SortedSeq(_)
SortedSeq(S) ==
  IF S = {} THEN <<>>
  ELSE LET lo == CHOOSE x \in S : \A y \in S : x <= y
       IN <<lo>> \o SortedSeq(S \ {lo})

-----------------------------------------------------------------------------
(* Bounds of the checked inputs                                            *)

\* longest short text
MaxLen == 3

\* longest tail appended to the 1000-character pad of a long text
MaxTail == 3

\* the length from which both texts are compared word by word
CharLevelLimit == 1000

Alphabet == {"a", "b", " "}

RECURSIVE StringsUpTo(_)
StringsUpTo(k) ==
  IF k = 0 THEN {<<>>}
  ELSE LET shorter == StringsUpTo(k - 1)
       IN shorter \cup {Append(s, c) : s \in {t \in shorter : Len(t) = k - 1}, c \in Alphabet}

ShortTexts == StringsUpTo(MaxLen)

\* one word of exactly CharLevelLimit characters
Pad == [i \in 1..CharLevelLimit |-> "a"]

LongTexts == {Pad \o t : t \in StringsUpTo(MaxTail)}

TextInputs == {Absent} \cup ShortTexts \cup LongTexts

-----------------------------------------------------------------------------
(* String.prototype.split(/\s+/): the pieces between the maximal runs of    *)
(* whitespace, with an empty piece before a leading run and after a         *)
(* trailing one.                                                            *)

splitWhitespace(s) ==
  LET n == Len(s)
      \* a piece starts at 1 and after the last character of every whitespace run
      starts == {1} \cup {i + 1 : i \in {k \in 1..n : IsSpace(s[k]) /\ (k = n \/ ~IsSpace(s[k + 1]))}}
      \* and ends before the next whitespace character, or at the end of the string
      stop(p) == CHOOSE q \in (p - 1)..n :
                    /\ (q = n \/ IsSpace(s[q + 1]))
                    /\ \A r \in p..q : ~IsSpace(s[r])
      order == SortedSeq(starts)
  IN [k \in 1..Len(order) |-> SubSeq(s, order[k], stop(order[k]))]

-----------------------------------------------------------------------------
(* countCharacterChanges: edit distance on two rolling rows                 *)

\* charRow with the insertion term curr[j - 1] + 1 left out of the minimum
RECURSIVE charRow_NoInsertion(_, _, _, _, _, _)
charRow_NoInsertion(old, new, prev, curr, i, j) ==
  IF j > Len(new) THEN curr
  ELSE charRow_NoInsertion(old, new, prev,
               [curr EXCEPT ![j] =
                  IF old[i] = new[j]
                  THEN prev[j - 1]
                  ELSE Min(prev[j] + 1, prev[j - 1] + 1)],
               i, j + 1)

\* the inner loop over j of countCharacterChanges, from column j on
RECURSIVE charRow(_, _, _, _, _, _)
charRow(old, new, prev, curr, i, j) ==
  IF j > Len(new) THEN curr
  ELSE charRow(old, new, prev,
               [curr EXCEPT ![j] =
                  IF old[i] = new[j]
                  THEN prev[j - 1]
                  ELSE Min3(prev[j] + 1, curr[j - 1] + 1, prev[j - 1] + 1)],
               i, j + 1)

\* the outer loop over i, from row i on; the two rows are swapped after each row
RECURSIVE charRows(_, _, _, _, _)
charRows(old, new, prev, curr, i) ==
  IF i > Len(old) THEN prev[Len(new)]
  ELSE charRows(old, new,
                charRow(old, new, prev, [curr EXCEPT ![0] = i], i, 1),
                prev,
                i + 1)

\* countCharacterChanges with m - n in place of Math.abs(m - n)
countCharacterChanges_SignedDiff(old, new) ==
  LET m == Len(old)
      n == Len(new)
  IN IF 2 * (m - n) > Max(m, n) THEN Max(m, n)
     ELSE IF m = 0 THEN n
     ELSE IF n = 0 THEN m
     ELSE charRows(old, new, [j \in 0..n |-> j], [j \in 0..n |-> 0], 1)

countCharacterChanges(old, new) ==
  LET m == Len(old)
      n == Len(new)
  IN IF 2 * Abs(m - n) > Max(m, n) THEN Max(m, n)   \* Math.abs(m - n) > Math.max(m, n) * 0.5
     ELSE IF m = 0 THEN n
     ELSE IF n = 0 THEN m
     ELSE charRows(old, new, [j \in 0..n |-> j], [j \in 0..n |-> 0], 1)

-----------------------------------------------------------------------------
(* longestCommonSubsequenceLength: LCS length on two rolling rows           *)

\* lcsRow with curr[j - 1] left out of the maximum
RECURSIVE lcsRow_NoLeft(_, _, _, _, _, _)
lcsRow_NoLeft(a, b, prev, curr, i, j) ==
  IF j > Len(b) THEN curr
  ELSE lcsRow_NoLeft(a, b, prev,
              [curr EXCEPT ![j] =
                 IF a[i] = b[j]
                 THEN prev[j - 1] + 1
                 ELSE prev[j]],
              i, j + 1)

RECURSIVE lcsRow(_, _, _, _, _, _)
lcsRow(a, b, prev, curr, i, j) ==
  IF j > Len(b) THEN curr
  ELSE lcsRow(a, b, prev,
              [curr EXCEPT ![j] =
                 IF a[i] = b[j]
                 THEN prev[j - 1] + 1
                 ELSE Max(prev[j], curr[j - 1])],
              i, j + 1)

RECURSIVE lcsRows(_, _, _, _, _)
lcsRows(a, b, prev, curr, i) ==
  IF i > Len(a) THEN prev[Len(b)]
  ELSE lcsRows(a, b, lcsRow(a, b, prev, curr, i, 1), prev, i + 1)

longestCommonSubsequenceLength(a, b) ==
  IF Len(a) = 0 \/ Len(b) = 0 THEN 0
  ELSE lcsRows(a, b, [j \in 0..Len(b) |-> 0], [j \in 0..Len(b) |-> 0], 1)

-----------------------------------------------------------------------------
(* countChanges                                                             *)

\* countChanges without the return for equal texts, and with the length test of the
\* character path reversed (<), so that texts of equal length take the shortcut
countChanges_NoEqualReturn(old, new) ==
  IF Falsy(old) \/ Falsy(new) THEN 0
  ELSE IF Len(old) < CharLevelLimit \/ Len(new) < CharLevelLimit
       THEN IF 2 * Abs(Len(old) - Len(new)) < Max(Len(old), Len(new))
            THEN Max(Len(old), Len(new))
            ELSE countCharacterChanges(old, new)
  ELSE LET oldWords == splitWhitespace(old)
           newWords == splitWhitespace(new)
           lcsLength == longestCommonSubsequenceLength(oldWords, newWords)
       IN (Len(newWords) - lcsLength) + (Len(oldWords) - lcsLength)

\* countChanges with && in place of || in the test for empty arguments
countChanges_BothEmpty(old, new) ==
  IF Falsy(old) /\ Falsy(new) THEN 0
  ELSE IF old = new THEN 0
  ELSE IF Len(old) < CharLevelLimit \/ Len(new) < CharLevelLimit
       THEN countCharacterChanges(old, new)
  ELSE LET oldWords == splitWhitespace(old)
           newWords == splitWhitespace(new)
           lcsLength == longestCommonSubsequenceLength(oldWords, newWords)
       IN (Len(newWords) - lcsLength) + (Len(oldWords) - lcsLength)

countChanges(old, new) ==
  IF Falsy(old) \/ Falsy(new) THEN 0
  ELSE IF old = new THEN 0
  ELSE IF Len(old) < CharLevelLimit \/ Len(new) < CharLevelLimit
       THEN countCharacterChanges(old, new)
  ELSE LET oldWords == splitWhitespace(old)
           newWords == splitWhitespace(new)
           lcsLength == longestCommonSubsequenceLength(oldWords, newWords)
           added == Len(newWords) - lcsLength
           removed == Len(oldWords) - lcsLength
       IN added + removed

-----------------------------------------------------------------------------
(* Specification of a call of countChanges on any two of the inputs         *)

InitCount ==
  /\ pc = "called"
  /\ oldText \in TextInputs
  /\ newText \in TextInputs
  /\ result = NoResult
  /\ html = Absent
  /\ text = NoResult
  /\ NoRegion
  /\ NoHighlight
  /\ NoDetect
  /\ NoService

CallCountChanges ==
  /\ pc = "called"
  /\ result' = countChanges(oldText, newText)
  /\ pc' = "returned"
  /\ UNCHANGED <<oldText, newText, extractVars, regionVars, highlightVars, detectVars, serviceVars>>

NextCount == CallCountChanges

SpecCount == InitCount /\ [][NextCount]_vars

-----------------------------------------------------------------------------
(* extractText                                                              *)

ToLower ==
  ("S" :> "s") @@ ("C" :> "c") @@ ("R" :> "r") @@ ("I" :> "i") @@ ("P" :> "p") @@
  ("T" :> "t") @@ ("Y" :> "y") @@ ("L" :> "l") @@ ("E" :> "e")

\* comparison of characters under the regular expression flag i
Lower(c) == IF c \in DOMAIN ToLower THEN ToLower[c] ELSE c

\* s, from position p on, starts with pat
StartsAt(s, p, pat) ==
  /\ p + Len(pat) - 1 <= Len(s)
  /\ \A k \in 1..Len(pat) : s[p + k - 1] = pat[k]

\* the same, ignoring case
StartsAtCI(s, p, pat) ==
  /\ p + Len(pat) - 1 <= Len(s)
  /\ \A k \in 1..Len(pat) : Lower(s[p + k - 1]) = Lower(pat[k])

ScriptOpen == <<"<", "s", "c", "r", "i", "p", "t">>

ScriptClose == <<"<", "/", "s", "c", "r", "i", "p", "t", ">">>

StyleOpen == <<"<", "s", "t", "y", "l", "e">>

StyleClose == <<"<", "/", "s", "t", "y", "l", "e", ">">>

\* s.replace(/open[\s\S]*?close/gi, ''): from the left, every open that a close follows is
\* removed with everything up to the first such close
RECURSIVE removeRegions(_, _, _)
removeRegions(s, open, close) ==
  LET closesAfter(p) == {k \in (p + Len(open))..Len(s) : StartsAtCI(s, k, close)}
      starts == {p \in 1..Len(s) : StartsAtCI(s, p, open) /\ closesAfter(p) # {}}
  IN IF starts = {} THEN s
     ELSE LET p == CHOOSE x \in starts : \A y \in starts : x <= y
              k == CHOOSE x \in closesAfter(p) : \A y \in closesAfter(p) : x <= y
          IN SubSeq(s, 1, p - 1) \o removeRegions(SubSeq(s, k + Len(close), Len(s)), open, close)

\* stripTags without the flag g: only the first tag is replaced
stripTags_FirstOnly(s) ==
  LET closesAfter(p) == {k \in (p + 1)..Len(s) : s[k] = ">"}
      starts == {p \in 1..Len(s) : s[p] = "<" /\ closesAfter(p) # {} /\ s[p + 1] # ">"}
  IN IF starts = {} THEN s
     ELSE LET p == CHOOSE x \in starts : \A y \in starts : x <= y
              k == CHOOSE x \in closesAfter(p) : \A y \in closesAfter(p) : x <= y
          IN SubSeq(s, 1, p - 1) \o <<" ">> \o SubSeq(s, k + 1, Len(s))

\* s.replace(/<[^>]+>/g, ' '): a '<', one or more characters other than '>', and a '>'
RECURSIVE stripTags(_)
stripTags(s) ==
  LET closesAfter(p) == {k \in (p + 1)..Len(s) : s[k] = ">"}
      starts == {p \in 1..Len(s) : s[p] = "<" /\ closesAfter(p) # {} /\ s[p + 1] # ">"}
  IN IF starts = {} THEN s
     ELSE LET p == CHOOSE x \in starts : \A y \in starts : x <= y
              k == CHOOSE x \in closesAfter(p) : \A y \in closesAfter(p) : x <= y
          IN SubSeq(s, 1, p - 1) \o <<" ">> \o stripTags(SubSeq(s, k + 1, Len(s)))

\* s.replace(/pat/g, rep) for a literal pat
RECURSIVE replaceAll(_, _, _)
replaceAll(s, pat, rep) ==
  LET starts == {p \in 1..Len(s) : StartsAt(s, p, pat)}
  IN IF starts = {} THEN s
     ELSE LET p == CHOOSE x \in starts : \A y \in starts : x <= y
          IN SubSeq(s, 1, p - 1) \o rep \o replaceAll(SubSeq(s, p + Len(pat), Len(s)), pat, rep)

EntNbsp == <<"&", "n", "b", "s", "p", ";">>

EntAmp == <<"&", "a", "m", "p", ";">>

EntLt == <<"&", "l", "t", ";">>

EntGt == <<"&", "g", "t", ";">>

EntQuot == <<"&", "q", "u", "o", "t", ";">>

\* the first two entity replacements: &nbsp; and &amp;
decodeNbspAmp(s) == replaceAll(replaceAll(s, EntNbsp, <<" ">>), EntAmp, <<"&">>)

\* the five entity replacements, in the order of the source
decodeEntities(s) ==
  replaceAll(replaceAll(replaceAll(decodeNbspAmp(s),
    EntLt, <<"<">>), EntGt, <<">">>), EntQuot, <<"\"">>)

\* collapseWhitespace without the +: every whitespace character becomes a space
collapseWhitespace_EachCharacter(s) ==
  [k \in 1..Len(s) |-> IF IsSpace(s[k]) THEN " " ELSE s[k]]

\* s.replace(/\s+/g, ' ')
RECURSIVE collapseWhitespace(_)
collapseWhitespace(s) ==
  LET starts == {p \in 1..Len(s) : IsSpace(s[p])}
  IN IF starts = {} THEN s
     ELSE LET p == CHOOSE x \in starts : \A y \in starts : x <= y
              ends == {k \in p..Len(s) : \A r \in p..k : IsSpace(s[r])}
              k == CHOOSE x \in ends : \A y \in ends : x >= y
          IN SubSeq(s, 1, p - 1) \o <<" ">> \o collapseWhitespace(SubSeq(s, k + 1, Len(s)))

\* String.prototype.trim
trim(s) ==
  LET keep == {k \in 1..Len(s) : ~IsSpace(s[k])}
  IN IF keep = {} THEN <<>>
     ELSE SubSeq(s, CHOOSE x \in keep : \A y \in keep : x <= y,
                    CHOOSE x \in keep : \A y \in keep : x >= y)

\* withoutTags with the tags replaced before the script and style regions are removed
withoutTags_TagsFirst(h) ==
  removeRegions(removeRegions(stripTags(h), ScriptOpen, ScriptClose), StyleOpen, StyleClose)

\* the text after the script regions, the style regions and the tags are removed
withoutTags(h) ==
  stripTags(removeRegions(removeRegions(h, ScriptOpen, ScriptClose), StyleOpen, StyleClose))

\* extractText with the entities decoded after the whitespace is normalized
extractText_DecodeLast(h) ==
  IF Falsy(h) THEN <<>>
  ELSE decodeEntities(trim(collapseWhitespace(withoutTags(h))))

extractText(h) ==
  IF Falsy(h) THEN <<>>
  ELSE trim(collapseWhitespace(decodeEntities(withoutTags(h))))

-----------------------------------------------------------------------------
(* Markup inputs: up to MaxFrags fragments, one after the other             *)

MaxFrags == 3

Fragments ==
  { <<"a">>, <<" ">>, <<"\n">>, <<"<">>, <<">">>,
    EntLt, EntGt, EntAmp, EntNbsp, EntQuot, <<"l", "t", ";">>,
    ScriptOpen, ScriptClose, <<"<", "S", "T", "Y", "L", "E">>, StyleClose,
    <<"\t", "\n">> }

RECURSIVE MarkupUpTo(_)
MarkupUpTo(k) ==
  IF k = 0 THEN {<<>>}
  ELSE LET shorter == MarkupUpTo(k - 1)
       IN shorter \cup {f \o s : f \in Fragments, s \in shorter}

MarkupInputs == {Absent} \cup MarkupUpTo(MaxFrags)

-----------------------------------------------------------------------------
(* Specification of a call of extractText on any of the markup inputs       *)

InitExtract ==
  /\ pc = "called"
  /\ html \in MarkupInputs
  /\ text = NoResult
  /\ oldText = Absent
  /\ newText = Absent
  /\ result = NoResult
  /\ NoRegion
  /\ NoHighlight
  /\ NoDetect
  /\ NoService

CallExtractText ==
  /\ pc = "called"
  /\ text' = extractText(html)
  /\ pc' = "returned"
  /\ UNCHANGED <<html, countVars, regionVars, highlightVars, detectVars, serviceVars>>

NextExtract == CallExtractText

SpecExtract == InitExtract /\ [][NextExtract]_vars

-----------------------------------------------------------------------------
(* Markup with a script or style region inserted between a prefix and a     *)
(* suffix, and the specification of a call of extractText on it             *)

\* most fragments of a prefix
MaxPrefix == 2

PrefixFragments ==
  { <<"a">>, <<" ">>, <<"<">>, <<">">>, ScriptOpen, ScriptClose, StyleOpen, StyleClose,
    ScriptOpen \o StyleClose \o ScriptClose }

RECURSIVE PrefixesUpTo(_)
PrefixesUpTo(k) ==
  IF k = 0 THEN {<<>>}
  ELSE LET shorter == PrefixesUpTo(k - 1)
       IN shorter \cup {f \o s : f \in PrefixFragments, s \in shorter}

RegionTags ==
  { <<ScriptOpen \o <<">">>, ScriptClose>>,
    <<(<<"<", "S", "C", "R", "I", "P", "T", ">">>), (<<"<", "/", "S", "C", "R", "I", "P", "T", ">">>)>>,
    <<StyleOpen \o <<">">>, StyleClose>>,
    <<(<<"<", "S", "T", "Y", "L", "E", ">">>), (<<"<", "/", "S", "T", "Y", "L", "E", ">">>)>> }

Bodies ==
  { <<>>, <<"a">>, <<"a", "\n", "a">>, <<"<">>, <<"a", ">">>,
    ScriptOpen, StyleOpen, ScriptClose, StyleClose }

Suffixes ==
  { <<>>, <<"a">>, <<" ", "a">>, <<">", "a">>,
    <<"a">> \o ScriptClose \o <<"a">>, <<"a">> \o StyleClose \o <<"a">> }

InitRegion ==
  /\ pc = "called"
  /\ prefix \in PrefixesUpTo(MaxPrefix)
  /\ \E tags \in RegionTags : opening = tags[1] /\ closing = tags[2]
  /\ body \in Bodies
  /\ suffix \in Suffixes
  /\ html = prefix \o opening \o body \o closing \o suffix
  /\ text = NoResult
  /\ oldText = Absent
  /\ newText = Absent
  /\ result = NoResult
  /\ NoHighlight
  /\ NoDetect
  /\ NoService

SpecRegion == InitRegion /\ [][NextExtract]_vars

-----------------------------------------------------------------------------
(* highlightChanges: tokenize, computeDiff, buildHighlightedHtml            *)

\* the end of the tag that starts at the first character of s, or 0 when /<[^>]+>/ does
\* not match there
tagEnd(s) ==
  LET closes == {k \in 2..Len(s) : s[k] = ">"}
      k == CHOOSE x \in closes : \A y \in closes : x <= y
  IN IF s # <<>> /\ s[1] = "<" /\ closes # {} /\ k >= 3 THEN k ELSE 0

\* a character of [^<\s]
IsWordChar(c) == c # "<" /\ ~IsSpace(c)

\* the length of the match of [^<\s]+ at the start of s
wordRun(s) ==
  LET stops == {k \in 1..Len(s) : ~IsWordChar(s[k])}
  IN IF stops = {} THEN Len(s) ELSE (CHOOSE x \in stops : \A y \in stops : x <= y) - 1

\* the length of the match of \s+ at the start of s
spaceRun(s) ==
  LET stops == {k \in 1..Len(s) : ~IsSpace(s[k])}
  IN IF stops = {} THEN Len(s) ELSE (CHOOSE x \in stops : \A y \in stops : x <= y) - 1

\* tokenize without the third alternative (\s+): whitespace is skipped
RECURSIVE tokenize_SkipsSpace(_)
tokenize_SkipsSpace(s) ==
  IF s = <<>> THEN <<>>
  ELSE IF tagEnd(s) > 0
       THEN <<[type |-> "tag", value |-> SubSeq(s, 1, tagEnd(s))]>>
              \o tokenize_SkipsSpace(SubSeq(s, tagEnd(s) + 1, Len(s)))
  ELSE IF IsWordChar(s[1])
       THEN <<[type |-> "word", value |-> SubSeq(s, 1, wordRun(s))]>>
              \o tokenize_SkipsSpace(SubSeq(s, wordRun(s) + 1, Len(s)))
  ELSE tokenize_SkipsSpace(Tail(s))

\* the loop of regex.exec over /(<[^>]+>)|([^<\s]+)|(\s+)/g: a tag, else a word, else a
\* run of whitespace; a character that starts none of them is skipped
RECURSIVE tokenize(_)
tokenize(s) ==
  IF s = <<>> THEN <<>>
  ELSE IF tagEnd(s) > 0
       THEN <<[type |-> "tag", value |-> SubSeq(s, 1, tagEnd(s))]>>
              \o tokenize(SubSeq(s, tagEnd(s) + 1, Len(s)))
  ELSE IF IsWordChar(s[1])
       THEN <<[type |-> "word", value |-> SubSeq(s, 1, wordRun(s))]>>
              \o tokenize(SubSeq(s, wordRun(s) + 1, Len(s)))
  ELSE IF IsSpace(s[1])
       THEN <<[type |-> "space", value |-> SubSeq(s, 1, spaceRun(s))]>>
              \o tokenize(SubSeq(s, spaceRun(s) + 1, Len(s)))
  ELSE tokenize(Tail(s))

\* the values of the word tokens: new Set(oldWords)
wordSet(tokens) == {tokens[k].value : k \in {x \in 1..Len(tokens) : tokens[x].type = "word"}}

\* computeDiff comparing each token with the old token at the same index
computeDiff_Positional(oldTokens, newTokens) ==
  [k \in 1..Len(newTokens) |->
     [type |-> newTokens[k].type,
      value |-> newTokens[k].value,
      status |-> IF newTokens[k].type # "word" THEN "unchanged"
                 ELSE IF k > Len(oldTokens) \/ oldTokens[k].value # newTokens[k].value
                 THEN "added"
                 ELSE "unchanged"]]

computeDiff(oldTokens, newTokens) ==
  LET oldSet == wordSet(oldTokens)
  IN [k \in 1..Len(newTokens) |->
        [type |-> newTokens[k].type,
         value |-> newTokens[k].value,
         status |-> IF newTokens[k].type # "word" THEN "unchanged"
                    ELSE IF newTokens[k].value \notin oldSet THEN "added"
                    ELSE "unchanged"]]

\* `<span style="background-color: ${color};">`
spanOpen(color) ==
  <<"<", "s", "p", "a", "n", " ", "s", "t", "y", "l", "e", "=", "\"", "b", "a", "c", "k", "g", "r", "o", "u", "n", "d", "-", "c", "o", "l", "o", "r", ":", " ">> \o color \o <<";", "\"", ">">>

spanClose == <<"<", "/", "s", "p", "a", "n", ">">>

\* result += piece, with the piece recorded: kind is "open", "close" or "token", k the
\* index of the token
emit(st, piece, kind, k) ==
  [st EXCEPT !.result = @ \o piece,
             !.emitted = Append(@, [kind |-> kind, index |-> k])]

\* if (inHighlight) { result += '</span>'; inHighlight = false; }
closeHighlight(st, k) ==
  IF st.inHighlight
  THEN [emit(st, spanClose, "close", k) EXCEPT !.inHighlight = FALSE]
  ELSE st

\* after the loop: if (inHighlight) { result += '</span>'; }
finishHighlight(st, k) ==
  IF st.inHighlight THEN emit(st, spanClose, "close", k) ELSE st

\* openHighlight without the test of inHighlight
openHighlight_Always(st, color, k) ==
  [emit(st, spanOpen(color), "open", k) EXCEPT !.inHighlight = TRUE]

\* if (!inHighlight) { result += `<span ...>`; inHighlight = true; }
openHighlight(st, color, k) ==
  IF ~st.inHighlight
  THEN [emit(st, spanOpen(color), "open", k) EXCEPT !.inHighlight = TRUE]
  ELSE st

\* emitToken whose tag branch does not close the highlight
emitToken_TagInside(st, token, color, k) ==
  IF token.status = "added" /\ token.type = "word"
  THEN emit(openHighlight(st, color, k), token.value, "token", k)
  ELSE IF token.type = "space"
  THEN emit(closeHighlight(st, k), token.value, "token", k)
  ELSE IF token.type = "tag"
  THEN emit(st, token.value, "token", k)
  ELSE emit(closeHighlight(st, k), token.value, "token", k)

\* one iteration of the loop of buildHighlightedHtml, for the token diff[k]
emitToken(st, token, color, k) ==
  IF token.status = "added" /\ token.type = "word"
  THEN emit(openHighlight(st, color, k), token.value, "token", k)
  ELSE IF token.type = "space"
  THEN emit(closeHighlight(st, k), token.value, "token", k)
  ELSE IF token.type = "tag"
  THEN emit(closeHighlight(st, k), token.value, "token", k)
  ELSE emit(closeHighlight(st, k), token.value, "token", k)

\* the loop of buildHighlightedHtml from the token k on
RECURSIVE emitFrom(_, _, _, _)
emitFrom(st, tokens, color, k) ==
  IF k > Len(tokens) THEN st
  ELSE emitFrom(emitToken(st, tokens[k], color, k), tokens, color, k + 1)

buildHighlightedHtml(tokens, color) ==
  finishHighlight(emitFrom(NoHighlightYet, tokens, color, 1), Len(tokens) + 1).result

highlightChanges(old, new, color) ==
  IF Falsy(old) THEN (IF Falsy(new) THEN <<>> ELSE new)
  ELSE IF Falsy(new) THEN <<>>
  ELSE IF old = new THEN new
  ELSE buildHighlightedHtml(computeDiff(tokenize(old), tokenize(new)), color)

\* the colours the viewer passes
AddedColor == <<"#", "f", "f", "f", "f", "6", "6">>

RemovedColor == <<"#", "f", "f", "c", "c", "c", "c">>

-----------------------------------------------------------------------------
(* Specification of the highlighting calls, the loop of buildHighlightedHtml *)
(* taken token by token                                                      *)

\* most fragments of the old snapshot
MaxOldFrags == 2

\* most fragments of the new snapshot
MaxNewFrags == 3

HighlightFragments == { <<"a">>, <<"b">>, <<" ">>, <<"<", "p", ">">>, <<"<">> }

RECURSIVE SnapshotsUpTo(_)
SnapshotsUpTo(k) ==
  IF k = 0 THEN {<<>>}
  ELSE LET shorter == SnapshotsUpTo(k - 1)
       IN shorter \cup {f \o s : f \in HighlightFragments, s \in shorter}

\* the viewer calls highlightRemoved only with both snapshots loaded and non-empty
InitHighlight ==
  /\ pc = "called"
  /\ mode \in {"changes", "removed"}
  /\ viewOld \in {Absent} \cup SnapshotsUpTo(MaxOldFrags)
  /\ viewNew \in {Absent} \cup SnapshotsUpTo(MaxNewFrags)
  /\ mode = "removed" => ~Falsy(viewOld) /\ ~Falsy(viewNew)
  /\ oldHtml = NoResult
  /\ newHtml = NoResult
  /\ highlightColor = NoResult
  /\ diff = NoResult
  /\ pos = 0
  /\ hl = NoHighlightYet
  /\ out = NoResult
  /\ oldText = Absent
  /\ newText = Absent
  /\ result = NoResult
  /\ html = Absent
  /\ text = NoResult
  /\ NoRegion
  /\ NoDetect
  /\ NoService

\* EnterHighlightChanges without the return for identical snapshots
EnterHighlightChanges_NoIdentical(a, b, color) ==
  /\ oldHtml' = a
  /\ newHtml' = b
  /\ highlightColor' = color
  /\ IF Falsy(a)
     THEN /\ out' = (IF Falsy(b) THEN <<>> ELSE b)
          /\ pc' = "returned"
          /\ UNCHANGED <<diff, pos, hl>>
     ELSE IF Falsy(b)
     THEN /\ out' = <<>>
          /\ pc' = "returned"
          /\ UNCHANGED <<diff, pos, hl>>
     ELSE /\ diff' = computeDiff(tokenize(a), tokenize(b))
          /\ pos' = 1
          /\ hl' = NoHighlightYet
          /\ pc' = "loop"
          /\ UNCHANGED out

\* highlightChanges(a, b, color) up to the loop of buildHighlightedHtml
EnterHighlightChanges(a, b, color) ==
  /\ oldHtml' = a
  /\ newHtml' = b
  /\ highlightColor' = color
  /\ IF Falsy(a)
     THEN /\ out' = (IF Falsy(b) THEN <<>> ELSE b)
          /\ pc' = "returned"
          /\ UNCHANGED <<diff, pos, hl>>
     ELSE IF Falsy(b)
     THEN /\ out' = <<>>
          /\ pc' = "returned"
          /\ UNCHANGED <<diff, pos, hl>>
     ELSE IF a = b
     THEN /\ out' = b
          /\ pc' = "returned"
          /\ UNCHANGED <<diff, pos, hl>>
     ELSE /\ diff' = computeDiff(tokenize(a), tokenize(b))
          /\ pos' = 1
          /\ hl' = NoHighlightYet
          /\ pc' = "loop"
          /\ UNCHANGED out

\* the viewer's highlightChanges(oldHtml, newHtml, '#ffff66')
CallHighlightChanges ==
  /\ pc = "called"
  /\ mode = "changes"
  /\ EnterHighlightChanges(viewOld, viewNew, AddedColor)
  /\ UNCHANGED <<mode, viewOld, viewNew, countVars, extractVars, regionVars, detectVars, serviceVars>>

\* highlightRemoved passing its arguments in the order it received them
CallHighlightRemoved_NoSwap ==
  /\ pc = "called"
  /\ mode = "removed"
  /\ IF Falsy(viewOld) \/ Falsy(viewNew)
     THEN /\ out' = viewOld
          /\ pc' = "returned"
          /\ UNCHANGED <<oldHtml, newHtml, highlightColor, diff, pos, hl>>
     ELSE EnterHighlightChanges(viewOld, viewNew, RemovedColor)
  /\ UNCHANGED <<mode, viewOld, viewNew, countVars, extractVars, regionVars, detectVars, serviceVars>>

\* the viewer's highlightRemoved(oldHtml, newHtml)
CallHighlightRemoved ==
  /\ pc = "called"
  /\ mode = "removed"
  /\ IF Falsy(viewOld) \/ Falsy(viewNew)
     THEN /\ out' = viewOld
          /\ pc' = "returned"
          /\ UNCHANGED <<oldHtml, newHtml, highlightColor, diff, pos, hl>>
     ELSE EnterHighlightChanges(viewNew, viewOld, RemovedColor)
  /\ UNCHANGED <<mode, viewOld, viewNew, countVars, extractVars, regionVars, detectVars, serviceVars>>

\* one iteration of for (const token of diff)
EmitToken ==
  /\ pc = "loop"
  /\ pos <= Len(diff)
  /\ hl' = emitToken(hl, diff[pos], highlightColor, pos)
  /\ pos' = pos + 1
  /\ UNCHANGED <<pc, mode, viewOld, viewNew, oldHtml, newHtml, highlightColor, diff, out,
                 countVars, extractVars, regionVars, detectVars, serviceVars>>

\* after the loop: the open highlight is closed and result is returned
ReturnHighlighted ==
  /\ pc = "loop"
  /\ pos > Len(diff)
  /\ hl' = finishHighlight(hl, pos)
  /\ out' = hl'.result
  /\ pc' = "returned"
  /\ UNCHANGED <<mode, viewOld, viewNew, oldHtml, newHtml, highlightColor, diff, pos,
                 countVars, extractVars, regionVars, detectVars, serviceVars>>

NextHighlight ==
  \/ CallHighlightChanges
  \/ CallHighlightRemoved
  \/ EmitToken
  \/ ReturnHighlighted

SpecHighlight == InitHighlight /\ [][NextHighlight]_vars

-----------------------------------------------------------------------------
(* detectChange of the scanner                                              *)

\* DEFAULTS.changeThreshold, the Default sensitivity
DefaultThreshold == 100

\* detectChange with changes > threshold in place of changes >= threshold
detectChange_Strict(old, new, limit) ==
  IF Falsy(old) THEN FALSE
  ELSE IF old = new THEN FALSE
  ELSE IF extractText(old) = extractText(new) THEN FALSE
  ELSE IF limit <= 1 THEN extractText(old) # extractText(new)
  ELSE countChanges(extractText(old), extractText(new)) > limit

detectChange(old, new, limit) ==
  IF Falsy(old) THEN FALSE
  ELSE IF old = new THEN FALSE
  ELSE IF extractText(old) = extractText(new) THEN FALSE
  ELSE IF limit <= 1 THEN extractText(old) # extractText(new)
  ELSE countChanges(extractText(old), extractText(new)) >= limit

-----------------------------------------------------------------------------
(* Specification of the calls of detectChange                               *)

\* most fragments of a snapshot
MaxDetectFrags == 2

DetectFragments == { <<"a">>, <<"b">>, <<" ">>, <<"<", "p", ">">> }

RECURSIVE PagesUpTo(_)
PagesUpTo(k) ==
  IF k = 0 THEN {<<>>}
  ELSE LET shorter == PagesUpTo(k - 1)
       IN shorter \cup {f \o s : f \in DetectFragments, s \in shorter}

\* a single word of as many characters as the Default sensitivity
LongWord == [k \in 1..DefaultThreshold |-> "a"]

\* a paragraph that holds the long word alone
LongPage == <<"<", "p", ">">> \o LongWord \o <<"<", "/", "p", ">">>

Pages == PagesUpTo(MaxDetectFrags) \cup {LongPage}

Thresholds == {0, 1, 2, 3, DefaultThreshold}

\* scanPage: previousHtml is absent before the first scan, newHtml is the text of the
\* response
InitDetect ==
  /\ pc = "called"
  /\ oldHtml \in {Absent} \cup Pages
  /\ newHtml \in Pages
  /\ threshold \in Thresholds
  /\ hasChanged = FALSE
  /\ oldText = Absent
  /\ newText = Absent
  /\ result = NoResult
  /\ html = Absent
  /\ text = NoResult
  /\ NoRegion
  /\ mode = "none"
  /\ viewOld = Absent
  /\ viewNew = Absent
  /\ highlightColor = NoResult
  /\ diff = NoResult
  /\ pos = 0
  /\ hl = NoHighlightYet
  /\ out = NoResult
  /\ NoService

\* detectChange(oldHtml, newHtml, threshold): oldText and newText are extracted unless
\* an earlier return is taken, countChanges is called when threshold > 1
CallDetectChange ==
  /\ pc = "called"
  /\ mode = "none"
  /\ oldHtml # NoResult
  /\ pc' = "returned"
  /\ hasChanged' = detectChange(oldHtml, newHtml, threshold)
  /\ IF Falsy(oldHtml) \/ oldHtml = newHtml
     THEN UNCHANGED <<oldText, newText, result>>
     ELSE /\ oldText' = extractText(oldHtml)
          /\ newText' = extractText(newHtml)
          /\ IF oldText' = newText' \/ threshold <= 1
             THEN UNCHANGED result
             ELSE result' = countChanges(oldText', newText')
  /\ UNCHANGED <<threshold, oldHtml, newHtml, mode, viewOld, viewNew, highlightColor, diff,
                 pos, hl, out, extractVars, regionVars, serviceVars>>

NextDetect == CallDetectChange

SpecDetect == InitDetect /\ [][NextDetect]_vars

-----------------------------------------------------------------------------
(* Page and PageStore: needsScan, getNeedingScan                            *)

\* PageState
NO_CHANGE == "no_change"

CHANGED == "changed"

ERROR == "error"

\* lastScanTime: null, lastChangeTime: null; a time the clock never shows
Never == 0

\* errorMessage: null
NoMessage == "null"

\* the milliseconds of a minute: 60 * 1000
MinuteMs == 60 * 1000

\* new Page(id, data) with the DEFAULTS for state, lastChangeTime and errorMessage
NewPage(id, interval, limit, lastScan) ==
  [id |-> id,
   scanIntervalMinutes |-> interval,
   changeThreshold |-> limit,
   state |-> NO_CHANGE,
   lastScanTime |-> lastScan,
   lastChangeTime |-> Never,
   errorMessage |-> NoMessage]

\* needsScan with elapsed > interval in place of elapsed >= interval
needsScan_Strict(page, t) ==
  IF page.scanIntervalMinutes = 0 THEN FALSE
  ELSE IF page.lastScanTime = Never THEN TRUE
  ELSE t - page.lastScanTime > page.scanIntervalMinutes * MinuteMs

\* Page.needsScan, with t the value of Date.now()
needsScan(page, t) ==
  IF page.scanIntervalMinutes = 0 THEN FALSE
  ELSE IF page.lastScanTime = Never THEN TRUE
  ELSE t - page.lastScanTime >= page.scanIntervalMinutes * MinuteMs

\* PageStore.getNeedingScan: this.getAll().filter(p => p.needsScan())
getNeedingScan(store, t) == SelectSeq(store, LAMBDA p : needsScan(p, t))

-----------------------------------------------------------------------------
(* Specification of the calls of getNeedingScan                             *)

\* most pages of a store
MaxStorePages == 2

\* longest scan interval and latest time, in minutes
MaxMinutes == 2

\* the times at a full minute and one millisecond before it
Times == {k * MinuteMs - d : k \in 1..MaxMinutes, d \in {0, 1}}

Intervals == 0..MaxMinutes

PageIds == <<"p1", "p2", "p3", "p4">>

\* the stores of k pages
RECURSIVE StoresOf(_)
StoresOf(k) ==
  IF k = 0 THEN {<<>>}
  ELSE {Append(store, NewPage(PageIds[k], interval, DefaultThreshold, lastScan)) :
          store \in StoresOf(k - 1),
          interval \in Intervals,
          lastScan \in {Never} \cup Times}

InitNeeds ==
  /\ pc = "called"
  /\ mode = "pages"
  /\ now \in Times
  /\ pageStore \in UNION {StoresOf(k) : k \in 0..MaxStorePages}
  /\ needing = <<>>
  /\ oldText = Absent
  /\ newText = Absent
  /\ result = NoResult
  /\ html = Absent
  /\ text = NoResult
  /\ NoRegion
  /\ viewOld = Absent
  /\ viewNew = Absent
  /\ oldHtml = NoResult
  /\ newHtml = NoResult
  /\ highlightColor = NoResult
  /\ diff = NoResult
  /\ pos = 0
  /\ hl = NoHighlightYet
  /\ out = NoResult
  /\ NoDetect
  /\ NoStorage
  /\ NoScans
  /\ NoWorker

CallGetNeedingScan ==
  /\ pc = "called"
  /\ mode = "pages"
  /\ needing' = getNeedingScan(pageStore, now)
  /\ pc' = "returned"
  /\ UNCHANGED <<now, pageStore, storageVars, scanVars, workerVars,
                 countVars, extractVars, regionVars, highlightVars, detectVars>>

NextNeeds == CallGetNeedingScan

SpecNeeds == InitNeeds /\ [][NextNeeds]_vars

-----------------------------------------------------------------------------
(* Storage: get, set and getAll over chrome.storage.sync and chrome.storage.local *)

\* a promise fulfilled with a value, and a promise rejected
Fulfilled(v) == [status |-> "fulfilled", value |-> v]

Rejected == [status |-> "rejected", value |-> Missing]

\* the area with the value stored under the key
Put(area, key, value) ==
  [k \in DOMAIN area \cup {key} |-> IF k = key THEN value ELSE area[k]]

\* a storage area after the key is removed from it
Remove(area, key) == [k \in DOMAIN area \ {key} |-> area[k]]

\* Storage.set(key, value): the promise of chrome.storage.sync.set is returned without
\* being awaited, so only an exception thrown by the call itself reaches the catch;
\* the result is <<the promise, sync, local>>
StorageSet(sync, local, key, value, behaviour) ==
  IF behaviour = "resolves" THEN <<Fulfilled(Missing), Put(sync, key, value), local>>
  ELSE IF behaviour = "rejects" THEN <<Rejected, sync, local>>
  ELSE <<Fulfilled(Missing), sync, Put(local, key, value)>>

\* Storage.getAll(): as for set, the promise of chrome.storage.sync.get(null) is returned
\* without being awaited
StorageGetAll(sync, local, behaviour) ==
  IF behaviour = "resolves" THEN Fulfilled(sync)
  ELSE IF behaviour = "rejects" THEN Rejected
  ELSE Fulfilled(local)

\* Storage.get(key): chrome.storage.sync.get is awaited, so a rejection reaches the catch
StorageGet(sync, local, key, behaviour) ==
  IF behaviour = "resolves" THEN Fulfilled(sync[key])
  ELSE Fulfilled(local[key])

-----------------------------------------------------------------------------
(* Specification of the calls of Storage                                    *)

StorageKeys == {"page:p1", "page:p2"}

StorageValues == {"v1", "v2"}

\* what a call of chrome.storage.sync does: its promise resolves, its promise rejects
\* (quota exceeded), or the call throws
SyncBehaviours == {"resolves", "rejects", "throws"}

StorageCalls ==
  [op : {"set"}, key : StorageKeys, value : StorageValues, sync : SyncBehaviours]
    \cup [op : {"get"}, key : StorageKeys, value : {Missing}, sync : SyncBehaviours]
    \cup [op : {"getAll"}, key : {Missing}, value : {Missing}, sync : SyncBehaviours]

InitStorage ==
  /\ pc = "called"
  /\ mode = "storage"
  /\ syncArea \in [StorageKeys -> StorageValues \cup {Missing}]
  /\ localArea \in [StorageKeys -> StorageValues \cup {Missing}]
  /\ storageCall \in StorageCalls
  /\ storageResult = <<>>
  /\ now = 0
  /\ NoPages
  /\ oldText = Absent
  /\ newText = Absent
  /\ result = NoResult
  /\ html = Absent
  /\ text = NoResult
  /\ NoRegion
  /\ viewOld = Absent
  /\ viewNew = Absent
  /\ oldHtml = NoResult
  /\ newHtml = NoResult
  /\ highlightColor = NoResult
  /\ diff = NoResult
  /\ pos = 0
  /\ hl = NoHighlightYet
  /\ out = NoResult
  /\ NoDetect
  /\ NoScans
  /\ NoWorker

CallStorageSet ==
  /\ pc = "called"
  /\ mode = "storage"
  /\ storageCall.op = "set"
  /\ LET r == StorageSet(syncArea, localArea, storageCall.key, storageCall.value,
                         storageCall.sync)
     IN /\ storageResult' = r[1]
        /\ syncArea' = r[2]
        /\ localArea' = r[3]
  /\ pc' = "returned"
  /\ UNCHANGED <<storageCall, now, pageStore, needing, scanVars, workerVars,
                 countVars, extractVars, regionVars, highlightVars, detectVars>>

CallStorageGetAll ==
  /\ pc = "called"
  /\ mode = "storage"
  /\ storageCall.op = "getAll"
  /\ storageResult' = StorageGetAll(syncArea, localArea, storageCall.sync)
  /\ pc' = "returned"
  /\ UNCHANGED <<syncArea, localArea, storageCall, now, pageStore, needing, scanVars,
                 workerVars,
                 countVars, extractVars, regionVars, highlightVars, detectVars>>

CallStorageGet ==
  /\ pc = "called"
  /\ mode = "storage"
  /\ storageCall.op = "get"
  /\ storageResult' = StorageGet(syncArea, localArea, storageCall.key, storageCall.sync)
  /\ pc' = "returned"
  /\ UNCHANGED <<syncArea, localArea, storageCall, now, pageStore, needing, scanVars,
                 workerVars,
                 countVars, extractVars, regionVars, highlightVars, detectVars>>

NextStorage ==
  \/ CallStorageSet
  \/ CallStorageGetAll
  \/ CallStorageGet

SpecStorage == InitStorage /\ [][NextStorage]_vars

-----------------------------------------------------------------------------
(* scanPage, one step per stretch of code between two awaits                *)

\* the retry loop: for (let attempt = 1; attempt <= 3; attempt++)
MaxAttempts == 3

\* setTimeout(() => controller.abort(), 30000)
TimeoutMs == 30000

\* sleep(1000 * attempt)
BackoffMs == 1000

\* Page.key(id), and the keys of the two snapshots of a page
PageKey(id) == <<"page", id>>

OldKey(id) == <<"html", id, "old">>

NewKey(id) == <<"html", id, "new">>

\* what a call of fetch can do: a response that is ok, a 4xx response, a 5xx response,
\* a thrown network error, a thrown error without a message, a thrown AbortError
FetchOutcomes == {"ok", "client", "server", "network", "silent", "abort"}

\* error.name and error.message of what the retry loop throws for an outcome
ErrorName(outcome) == IF outcome = "abort" THEN "AbortError" ELSE "Error"

ErrorMessage(outcome) ==
  IF outcome = "server" THEN "HTTP 5xx"
  ELSE IF outcome = "network" THEN "Failed to fetch"
  ELSE IF outcome = "abort" THEN "The user aborted a request."
  ELSE ""

\* shouldRetry that retries after an AbortError too
shouldRetry_AfterAbort(attempt, name) == attempt < MaxAttempts

\* the catch of the retry loop: attempt < 3 && fetchError.name !== 'AbortError'
shouldRetry(attempt, name) == attempt < MaxAttempts /\ name # "AbortError"

\* scanFailed that leaves the state of a changed page alone
scanFailed_KeepsChanged(page, name, message, t) ==
  [page EXCEPT !.state = IF @ = CHANGED THEN CHANGED ELSE ERROR,
               !.errorMessage = IF name = "AbortError" THEN "Request timeout (30s)"
                                ELSE IF message # "" THEN message
                                ELSE "Unknown error",
               !.lastScanTime = t]

\* the catch of scanPage up to page.save()
scanFailed(page, name, message, t) ==
  [page EXCEPT !.state = ERROR,
               !.errorMessage = IF name = "AbortError" THEN "Request timeout (30s)"
                                ELSE IF message # "" THEN message
                                ELSE "Unknown error",
               !.lastScanTime = t]

\* the scan at its start: the timer is set and fetch is called for the first time
BeginScan(page, t) ==
  [pc |-> "fetch",
   page |-> page,
   was |-> page,
   attempt |-> 1,
   started |-> t,
   issued |-> t,
   fetches |-> 1,
   waits |-> <<>>,
   retried |-> <<>>,
   newHtml |-> Absent,
   previousHtml |-> Absent,
   hasChanged |-> FALSE,
   failed |-> FALSE,
   error |-> [name |-> "none", message |-> ""],
   value |-> FALSE]

\* the scan enters the catch of scanPage: the page is marked and page.save() is called
Caught(f, name, message, t) ==
  [f EXCEPT !.pc = "save",
            !.failed = TRUE,
            !.error = [name |-> name, message |-> message],
            !.page = scanFailed(f.page, name, message, t)]

\* the call of fetch settles with the outcome: lines 37-64
fetchSettled(f, outcome, t) ==
  IF outcome = "ok" THEN [f EXCEPT !.pc = "text"]
  ELSE IF outcome = "client" THEN Caught(f, "Error", "HTTP 4xx", t)
  ELSE IF shouldRetry(f.attempt, ErrorName(outcome))
  THEN [f EXCEPT !.pc = "sleep",
                 !.waits = Append(@, BackoffMs * f.attempt),
                 !.retried = Append(@, outcome)]
  ELSE Caught(f, ErrorName(outcome), ErrorMessage(outcome), t)

\* sleep resolves: attempt++ and fetch is called again
sleepEnded(f, t) ==
  [f EXCEPT !.pc = "fetch",
            !.attempt = @ + 1,
            !.issued = t,
            !.fetches = @ + 1]

\* response.text() resolves with the markup: PageHtml.loadNew is called
textResolved(f, markup) == [f EXCEPT !.pc = "loadNew", !.newHtml = markup]

\* markNoChange that leaves the state of the page
markNoChange_KeepsState(f) == [f EXCEPT !.pc = "saveNew"]

\* lines 78-80, after which PageHtml.saveNew is called
markNoChange(f) ==
  [f EXCEPT !.pc = "saveNew",
            !.page = IF f.page.state # CHANGED THEN [f.page EXCEPT !.state = NO_CHANGE]
                     ELSE f.page]

\* lines 76-77, after which PageHtml.saveNew is called
markChanged(f, t) ==
  [f EXCEPT !.pc = "saveNew",
            !.page = [f.page EXCEPT !.state = CHANGED, !.lastChangeTime = t]]

\* loadNewResolved that takes the change of an already changed page for a new one
loadNewResolved_AlwaysNew(f, stored, t) ==
  LET changed == detectChange(stored, f.newHtml, f.page.changeThreshold)
      g == [f EXCEPT !.previousHtml = stored, !.hasChanged = changed]
  IN IF changed
     THEN IF ~Falsy(stored) THEN [g EXCEPT !.pc = "saveOld"] ELSE markChanged(g, t)
     ELSE markNoChange(g)

\* PageHtml.loadNew resolves with the stored new snapshot: lines 67-80 up to the next
\* await
loadNewResolved(f, stored, t) ==
  LET changed == detectChange(stored, f.newHtml, f.page.changeThreshold)
      g == [f EXCEPT !.previousHtml = stored, !.hasChanged = changed]
  IN IF changed /\ f.page.state # CHANGED
     THEN IF ~Falsy(stored) THEN [g EXCEPT !.pc = "saveOld"] ELSE markChanged(g, t)
     ELSE markNoChange(g)

\* saveNewResolved that leaves the time of the last scan
saveNewResolved_KeepsScanTime(f, t) ==
  [f EXCEPT !.pc = "save",
            !.page = [f.page EXCEPT !.errorMessage = NoMessage]]

\* PageHtml.saveNew resolves: lines 84-86 up to page.save()
saveNewResolved(f, t) ==
  [f EXCEPT !.pc = "save",
            !.page = [f.page EXCEPT !.lastScanTime = t, !.errorMessage = NoMessage]]

\* page.save() resolves: scanPage returns hasChanged, or false from its catch; the
\* locals of the retry loop are gone
saveResolved(f) ==
  [f EXCEPT !.pc = "returned",
            !.value = IF f.failed THEN FALSE ELSE f.hasChanged,
            !.attempt = 0,
            !.issued = f.started,
            !.fetches = 0,
            !.waits = <<>>,
            !.retried = <<>>]

-----------------------------------------------------------------------------
(* Specification of the scans of one page, one after the other              *)

\* most calls of scanPage
MaxScans == 3

\* most advances of the clock
MaxTicks == 2

\* the markup a response can hold
ScanBodies == { <<"a">>, <<"b">>, <<"b", "b">> }

\* the page scanned
ScannedId == "p1"

\* Page.load: the page object made from the stored metadata
StoredPage == syncArea[PageKey(ScannedId)]

\* the store after ADD_PAGE: the page is saved with an interval of one minute and a
\* threshold of 2, no snapshot is stored
InitScan ==
  /\ pc = "called"
  /\ mode = "scan"
  /\ now = MinuteMs
  /\ syncArea = (PageKey(ScannedId) :> NewPage(ScannedId, 1, 2, Never))
  /\ htmlStore = (OldKey(ScannedId) :> Absent) @@ (NewKey(ScannedId) :> Absent)
  /\ scan = NoScan
  /\ scans = 0
  /\ ticks = 0
  /\ baseline = NoBaseline
  /\ localArea = <<>>
  /\ storageCall = <<>>
  /\ storageResult = <<>>
  /\ NoPages
  /\ oldText = Absent
  /\ newText = Absent
  /\ result = NoResult
  /\ html = Absent
  /\ text = NoResult
  /\ NoRegion
  /\ viewOld = Absent
  /\ viewNew = Absent
  /\ oldHtml = NoResult
  /\ newHtml = NoResult
  /\ highlightColor = NoResult
  /\ diff = NoResult
  /\ pos = 0
  /\ hl = NoHighlightYet
  /\ out = NoResult
  /\ NoDetect
  /\ NoWorker

\* no call of scanPage is in progress
Idle == scan.pc \in {"idle", "returned"}

otherVars ==
  <<pc, mode, pageStore, needing, localArea, storageCall, storageResult,
    countVars, extractVars, regionVars, viewOld, viewNew, oldHtml, newHtml,
    highlightColor, diff, pos, hl, out, detectVars, workerVars>>

\* the handler of SCAN_PAGE: the page is loaded and scanPage called
StartScanPage ==
  /\ mode = "scan"
  /\ Idle
  /\ scans < MaxScans
  /\ scan' = BeginScan(StoredPage, now)
  /\ scans' = scans + 1
  /\ baseline' = [baseline EXCEPT !.oldBefore = htmlStore[OldKey(ScannedId)],
                                  !.newBefore = htmlStore[NewKey(ScannedId)]]
  /\ UNCHANGED <<now, syncArea, htmlStore, ticks, otherVars>>

\* the outcomes fetch can have now: only an AbortError once the timer has fired before
\* the call, and an AbortError only once the timer has fired
CanSettle(f, outcome, t) ==
  IF f.issued - f.started >= TimeoutMs THEN outcome = "abort"
  ELSE outcome = "abort" => t - f.started >= TimeoutMs

FetchSettles ==
  /\ mode = "scan"
  /\ scan.pc = "fetch"
  /\ \E outcome \in FetchOutcomes :
        /\ CanSettle(scan, outcome, now)
        /\ scan' = fetchSettled(scan, outcome, now)
  /\ UNCHANGED <<now, syncArea, htmlStore, scans, ticks, baseline, otherVars>>

SleepEnds ==
  /\ mode = "scan"
  /\ scan.pc = "sleep"
  /\ scan' = sleepEnded(scan, now)
  /\ UNCHANGED <<now, syncArea, htmlStore, scans, ticks, baseline, otherVars>>

TextResolves ==
  /\ mode = "scan"
  /\ scan.pc = "text"
  /\ \E markup \in ScanBodies : scan' = textResolved(scan, markup)
  /\ UNCHANGED <<now, syncArea, htmlStore, scans, ticks, baseline, otherVars>>

LoadNewResolves ==
  /\ mode = "scan"
  /\ scan.pc = "loadNew"
  /\ scan' = loadNewResolved(scan, htmlStore[NewKey(scan.page.id)], now)
  /\ baseline' =
       [baseline EXCEPT
          !.detected = IF scan'.hasChanged THEN scan'.previousHtml ELSE @,
          !.fresh = IF scan'.hasChanged /\ scan.page.state # CHANGED
                    THEN scan'.previousHtml ELSE @]
  /\ UNCHANGED <<now, syncArea, htmlStore, scans, ticks, otherVars>>

\* SaveOldResolves that writes the fetched markup as the old snapshot
SaveOldResolves_SavesFetched ==
  /\ mode = "scan"
  /\ scan.pc = "saveOld"
  /\ htmlStore' = Put(htmlStore, OldKey(scan.page.id), scan.newHtml)
  /\ scan' = markChanged(scan, now)
  /\ UNCHANGED <<now, syncArea, scans, ticks, baseline, otherVars>>

\* PageHtml.saveOld resolves: the old snapshot is written, the page marked changed
SaveOldResolves ==
  /\ mode = "scan"
  /\ scan.pc = "saveOld"
  /\ htmlStore' = Put(htmlStore, OldKey(scan.page.id), scan.previousHtml)
  /\ scan' = markChanged(scan, now)
  /\ UNCHANGED <<now, syncArea, scans, ticks, baseline, otherVars>>

\* PageHtml.saveNew resolves: the new snapshot is written
SaveNewResolves ==
  /\ mode = "scan"
  /\ scan.pc = "saveNew"
  /\ htmlStore' = Put(htmlStore, NewKey(scan.page.id), scan.newHtml)
  /\ scan' = saveNewResolved(scan, now)
  /\ UNCHANGED <<now, syncArea, scans, ticks, baseline, otherVars>>

\* page.save() resolves: the metadata is written and scanPage returns
SaveResolves ==
  /\ mode = "scan"
  /\ scan.pc = "save"
  /\ syncArea' = Put(syncArea, PageKey(scan.page.id), scan.page)
  /\ scan' = saveResolved(scan)
  /\ UNCHANGED <<now, htmlStore, scans, ticks, baseline, otherVars>>

\* PageStore.markAsRead: update(id, { state: NO_CHANGE }) of the loaded page, saved
markAsRead(page) == [page EXCEPT !.state = NO_CHANGE]

MarkAsRead ==
  /\ mode = "scan"
  /\ Idle
  /\ StoredPage.state # NO_CHANGE
  /\ syncArea' = Put(syncArea, PageKey(ScannedId), markAsRead(StoredPage))
  /\ scan' = NoScan
  /\ UNCHANGED <<now, htmlStore, scans, ticks, baseline, otherVars>>

\* time passes, while no scan runs or while a scan waits for fetch
Tick ==
  /\ mode = "scan"
  /\ scan.pc \in {"idle", "returned", "fetch"}
  /\ ticks < MaxTicks
  /\ now' = now + TimeoutMs
  /\ ticks' = ticks + 1
  /\ UNCHANGED <<syncArea, htmlStore, scan, scans, baseline, otherVars>>

NextScan ==
  \/ StartScanPage
  \/ FetchSettles
  \/ SleepEnds
  \/ TextResolves
  \/ LoadNewResolves
  \/ SaveOldResolves
  \/ SaveNewResolves
  \/ SaveResolves
  \/ MarkAsRead
  \/ Tick

SpecScan == InitScan /\ [][NextScan]_vars

-----------------------------------------------------------------------------
(* The service worker: the alarm and message handlers, one step per stretch *)
(* of code between two awaits                                               *)

\* most calls of the handlers
MaxTasks == 2

\* the pages stored when the service worker starts
WorkerIds == <<"p1", "p2">>

\* the messages handled here
MessageTypes == {"SCAN_ALL", "SCAN_PAGE", "DELETE_PAGE"}

\* what fetch does during these scans, and the markup of a response
WorkerOutcomes == {"ok", "client"}

WorkerBody == <<"a">>

\* HtmlStorage.load: undefined when nothing is stored under the key
Stored(area, key) == IF key \in DOMAIN area THEN area[key] ELSE Absent

\* PageStore.load: a page for every key page:<id> of the storage area
loadPages(sync) ==
  LET ids == SelectSeq(WorkerIds, LAMBDA id : PageKey(id) \in DOMAIN sync)
  IN [k \in 1..Len(ids) |-> sync[PageKey(ids[k])]]

\* PageStore.get(id), as a sequence of at most one page
getPage(store, id) == SelectSeq(store, LAMBDA page : page.id = id)

\* a call of a handler at a position, and the call once the handler has returned
Task(kind, id, at) ==
  [kind |-> kind, id |-> id, pc |-> at, queue |-> <<>>, frame |-> NoScan, answer |-> "none"]

Done(task, answer) ==
  [task EXCEPT !.pc = "done", !.queue = <<>>, !.frame = NoScan, !.answer = answer]

\* runAutoScan up to its first await: if (isScanning) return
runAutoScanCalled(scanning) ==
  IF scanning THEN Done(Task("alarm", "none", "called"), "skipped")
  ELSE Task("alarm", "none", "load")

\* scanPages(pages): scanPage is called for the first page; without pages it returns 0
scanPagesCalled(task, pages, t) ==
  IF pages = <<>> THEN [task EXCEPT !.pc = "reload"]
  ELSE [task EXCEPT !.pc = "scanPage", !.queue = pages, !.frame = BeginScan(pages[1], t)]

\* runAutoScan after PageStore.load: the task and isScanning
runAutoScanLoaded(task, store, t) ==
  LET due == getNeedingScan(store, t)
  IN IF due = <<>>
     THEN [task |-> Done(task, "nothing to scan"), isScanning |-> FALSE]
     ELSE [task |-> scanPagesCalled(task, due, t), isScanning |-> TRUE]

\* handleMessage after PageStore.load: the task and isScanning
handleMessageLoaded(task, store, scanning, t) ==
  IF task.kind = "SCAN_ALL"
  THEN IF scanning
       THEN [task |-> Done(task, "already_scanning"), isScanning |-> scanning]
       ELSE [task |-> scanPagesCalled(task, store, t), isScanning |-> TRUE]
  ELSE IF getPage(store, task.id) = <<>>
  THEN [task |-> Done(task, "success"), isScanning |-> scanning]
  ELSE IF task.kind = "SCAN_PAGE"
  THEN [task |-> scanPagesCalled(task, getPage(store, task.id), t), isScanning |-> scanning]
  ELSE [task |-> [task EXCEPT !.pc = "removePage"], isScanning |-> scanning]

\* one step of scanPage: <<the frame, the IndexedDB store, the storage area>> after it
scanPageStep(f, store, sync, outcome, markup, t) ==
  CASE f.pc = "fetch" -> <<fetchSettled(f, outcome, t), store, sync>>
    [] f.pc = "sleep" -> <<sleepEnded(f, t), store, sync>>
    [] f.pc = "text" -> <<textResolved(f, markup), store, sync>>
    [] f.pc = "loadNew" ->
         <<loadNewResolved(f, Stored(store, NewKey(f.page.id)), t), store, sync>>
    [] f.pc = "saveOld" ->
         <<markChanged(f, t), Put(store, OldKey(f.page.id), f.previousHtml), sync>>
    [] f.pc = "saveNew" ->
         <<saveNewResolved(f, t), Put(store, NewKey(f.page.id), f.newHtml), sync>>
    [] f.pc = "save" -> <<saveResolved(f), store, Put(sync, PageKey(f.page.id), f.page)>>

\* scanPage has returned to scanPages, or to the handler of SCAN_PAGE
scanPageReturned(task) ==
  LET rest == Tail(task.queue)
  IN IF task.kind # "SCAN_PAGE" /\ rest # <<>>
     THEN [task EXCEPT !.pc = "delay", !.queue = rest, !.frame = NoScan]
     ELSE [task EXCEPT !.pc = "reload", !.queue = <<>>, !.frame = NoScan]

\* the handler runs a batch scan: it has called scanPages, which has not returned
InBatch(task) == task.kind \in {"alarm", "SCAN_ALL"} /\ task.pc \in {"scanPage", "delay"}

\* the service worker starts with its pages stored, never scanned, due every minute
InitWorker ==
  /\ pc = "called"
  /\ mode = "worker"
  /\ now = MinuteMs
  /\ syncArea = [key \in {PageKey(WorkerIds[k]) : k \in 1..Len(WorkerIds)}
                   |-> NewPage(key[2], 1, 2, Never)]
  /\ htmlStore = <<>>
  /\ isScanning = FALSE
  /\ tasks = <<>>
  /\ answered = {}
  /\ scan = NoScan
  /\ scans = 0
  /\ ticks = 0
  /\ baseline = NoBaseline
  /\ localArea = <<>>
  /\ storageCall = <<>>
  /\ storageResult = <<>>
  /\ NoPages
  /\ oldText = Absent
  /\ newText = Absent
  /\ result = NoResult
  /\ html = Absent
  /\ text = NoResult
  /\ NoRegion
  /\ viewOld = Absent
  /\ viewNew = Absent
  /\ oldHtml = NoResult
  /\ newHtml = NoResult
  /\ highlightColor = NoResult
  /\ diff = NoResult
  /\ pos = 0
  /\ hl = NoHighlightYet
  /\ out = NoResult
  /\ NoDetect


idleVars ==
  <<pc, mode, now, pageStore, needing, localArea, storageCall, storageResult,
    scan, scans, ticks, baseline,
    countVars, extractVars, regionVars, viewOld, viewNew, oldHtml, newHtml,
    highlightColor, diff, pos, hl, out, detectVars>>

\* chrome.alarms.onAlarm: runAutoScan is called
AlarmFires ==
  /\ mode = "worker"
  /\ Len(tasks) < MaxTasks
  /\ tasks' = Append(tasks, runAutoScanCalled(isScanning))
  /\ UNCHANGED <<syncArea, htmlStore, isScanning, answered, idleVars>>

\* chrome.runtime.onMessage: handleMessage is called and awaits PageStore.load
MessageArrives ==
  /\ mode = "worker"
  /\ Len(tasks) < MaxTasks
  /\ \E type \in MessageTypes, k \in 1..Len(WorkerIds) :
        /\ type = "SCAN_ALL" => k = 1
        /\ tasks' = Append(tasks, Task(type, IF type = "SCAN_ALL" THEN "none"
                                             ELSE WorkerIds[k], "load"))
  /\ UNCHANGED <<syncArea, htmlStore, isScanning, answered, idleVars>>

\* PageStore.load resolves in runAutoScan or at the start of handleMessage
LoadResolves ==
  /\ mode = "worker"
  /\ \E k \in 1..Len(tasks) :
        /\ tasks[k].pc = "load"
        /\ LET task == tasks[k]
               store == loadPages(syncArea)
               r == IF task.kind = "alarm" THEN runAutoScanLoaded(task, store, now)
                    ELSE handleMessageLoaded(task, store, isScanning, now)
           IN /\ tasks' = [tasks EXCEPT ![k] = r.task]
              /\ isScanning' = r.isScanning
              /\ answered' = IF task.kind = "DELETE_PAGE" /\ r.task.pc = "done"
                             THEN answered \cup {task.id} ELSE answered
  /\ UNCHANGED <<syncArea, htmlStore, idleVars>>

\* an await of scanPage resolves in one of the handlers
ScanPageAdvances ==
  /\ mode = "worker"
  /\ \E k \in 1..Len(tasks), outcome \in WorkerOutcomes :
        /\ tasks[k].pc = "scanPage"
        /\ outcome = "client" => tasks[k].frame.pc = "fetch"
        /\ LET r == scanPageStep(tasks[k].frame, htmlStore, syncArea, outcome,
                                 WorkerBody, now)
           IN /\ htmlStore' = r[2]
              /\ syncArea' = r[3]
              /\ tasks' = [tasks EXCEPT ![k] = IF r[1].pc = "returned"
                                               THEN scanPageReturned(@)
                                               ELSE [@ EXCEPT !.frame = r[1]]]
  /\ UNCHANGED <<isScanning, answered, idleVars>>

\* scanPages: sleep(SCAN_DELAY_MS) resolves and scanPage is called for the next page
DelayEnds ==
  /\ mode = "worker"
  /\ \E k \in 1..Len(tasks) :
        /\ tasks[k].pc = "delay"
        /\ tasks' = [tasks EXCEPT ![k] = [@ EXCEPT !.pc = "scanPage",
                                                   !.frame = BeginScan(tasks[k].queue[1],
                                                                       now)]]
  /\ UNCHANGED <<syncArea, htmlStore, isScanning, answered, idleVars>>

\* the awaits after the scan resolve (PageStore.load, the notification): the handler
\* returns, through finally { isScanning = false } when it ran scanPages
ReloadResolves ==
  /\ mode = "worker"
  /\ \E k \in 1..Len(tasks) :
        /\ tasks[k].pc = "reload"
        /\ tasks' = [tasks EXCEPT ![k] = Done(@, "success")]
        /\ isScanning' = IF tasks[k].kind = "SCAN_PAGE" THEN isScanning ELSE FALSE
  /\ UNCHANGED <<syncArea, htmlStore, answered, idleVars>>

\* Page.delete: Storage.remove of the page, HtmlStorage.remove of the old and of the new
\* snapshot, one await each; then DELETE_PAGE is answered
DeleteAdvances ==
  /\ mode = "worker"
  /\ \E k \in 1..Len(tasks) :
        LET task == tasks[k]
        IN \/ /\ task.pc = "removePage"
              /\ syncArea' = Remove(syncArea, PageKey(task.id))
              /\ tasks' = [tasks EXCEPT ![k] = [@ EXCEPT !.pc = "removeOld"]]
              /\ UNCHANGED <<htmlStore, answered>>
           \/ /\ task.pc = "removeOld"
              /\ htmlStore' = Remove(htmlStore, OldKey(task.id))
              /\ tasks' = [tasks EXCEPT ![k] = [@ EXCEPT !.pc = "removeNew"]]
              /\ UNCHANGED <<syncArea, answered>>
           \/ /\ task.pc = "removeNew"
              /\ htmlStore' = Remove(htmlStore, NewKey(task.id))
              /\ tasks' = [tasks EXCEPT ![k] = Done(@, "success")]
              /\ answered' = answered \cup {task.id}
              /\ UNCHANGED syncArea
  /\ UNCHANGED <<isScanning, idleVars>>

NextWorker ==
  \/ AlarmFires
  \/ MessageArrives
  \/ LoadResolves
  \/ ScanPageAdvances
  \/ DelayEnds
  \/ ReloadResolves
  \/ DeleteAdvances

SpecWorker == InitWorker /\ [][NextWorker]_vars

-----------------------------------------------------------------------------
(* Reference definitions used by the properties                             *)

Front(s) == SubSeq(s, 1, Len(s) - 1)

\* the Levenshtein distance, by its defining recurrence on prefixes
RECURSIVE Levenshtein(_, _)
Levenshtein(a, b) ==
  IF a = <<>> THEN Len(b)
  ELSE IF b = <<>> THEN Len(a)
  ELSE Min3(Levenshtein(Front(a), b) + 1,
            Levenshtein(a, Front(b)) + 1,
            Levenshtein(Front(a), Front(b)) + (IF a[Len(a)] = b[Len(b)] THEN 0 ELSE 1))

\* x is a subsequence of b
RECURSIVE IsSubsequence(_, _)
IsSubsequence(x, b) ==
  IF x = <<>> THEN TRUE
  ELSE IF b = <<>> THEN FALSE
  ELSE IF Head(x) = Head(b) THEN IsSubsequence(Tail(x), Tail(b))
  ELSE IsSubsequence(x, Tail(b))

\* the elements of a at the positions I, in order
Pick(a, I) == LET order == SortedSeq(I) IN [k \in 1..Len(order) |-> a[order[k]]]

\* the length of a longest common subsequence, by definition
LcsLength(a, b) ==
  LET common == {I \in SUBSET (1..Len(a)) : IsSubsequence(Pick(a, I), b)}
  IN CHOOSE n \in 0..Len(a) :
       /\ \E I \in common : Cardinality(I) = n
       /\ \A I \in common : Cardinality(I) <= n

\* the last entry of the full LCS table, by its recurrence on prefixes
RECURSIVE LcsTable(_, _)
LcsTable(a, b) ==
  IF a = <<>> \/ b = <<>> THEN 0
  ELSE IF a[Len(a)] = b[Len(b)] THEN LcsTable(Front(a), Front(b)) + 1
  ELSE Max(LcsTable(Front(a), b), LcsTable(a, Front(b)))

\* t is a whitespace-normalized plain text, as extractText returns them
IsPlainText(t) ==
  /\ t # Absent
  /\ \A k \in 1..Len(t) : IsSpace(t[k]) => t[k] = " "
  /\ t # <<>> => ~IsSpace(t[1]) /\ ~IsSpace(t[Len(t)])
  /\ \A k \in 1..(Len(t) - 1) : ~(IsSpace(t[k]) /\ IsSpace(t[k + 1]))

\* s without its character at position k
DropAt(s, k) == SubSeq(s, 1, k - 1) \o SubSeq(s, k + 1, Len(s))

\* t is s after one insertion, one deletion or one substitution of a character
IsSingleEdit(s, t) ==
  \/ Len(t) = Len(s) + 1 /\ \E k \in 1..Len(t) : DropAt(t, k) = s
  \/ Len(s) = Len(t) + 1 /\ \E k \in 1..Len(s) : DropAt(s, k) = t
  \/ Len(s) = Len(t) /\ Cardinality({k \in 1..Len(s) : s[k] # t[k]}) = 1

\* both arguments are given and non-empty, and they differ
Compared == ~Falsy(oldText) /\ ~Falsy(newText) /\ oldText # newText

CharacterLevel == Len(oldText) < CharLevelLimit \/ Len(newText) < CharLevelLimit

LengthShortcut == 2 * Abs(Len(oldText) - Len(newText)) > Max(Len(oldText), Len(newText))

-----------------------------------------------------------------------------
(* Properties of countChanges, checked under SpecCount                      *)

\* C1: countChanges(A, B) = countChanges(B, A) for all A and B, on every path
\* (empty argument, character level, length shortcut, word level).
C1_Symmetry ==
  pc = "returned" => result = countChanges(newText, oldText)

\* C1 is reached on the word-level path with word sequences of different lengths
C1_Witness ==
  /\ pc = "returned"
  /\ Compared /\ ~CharacterLevel
  /\ Len(splitWhitespace(oldText)) < Len(splitWhitespace(newText))
  /\ result > 0

\* C2: countChanges(A, A) = 0 for every A, empty, short or long.
C2_IdenticalIsZero ==
  pc = "returned" /\ oldText = newText => result = 0

\* C2 is reached with a long text compared with itself
C2_Witness ==
  /\ pc = "returned"
  /\ oldText = newText
  /\ ~Falsy(oldText) /\ Len(oldText) > CharLevelLimit

\* C3: for extracted plain texts A and B, countChanges(A, B) = 0 if and only if A = B,
\* and the result is never negative.
C3_ZeroIffEqual ==
  pc = "returned" /\ IsPlainText(oldText) /\ IsPlainText(newText)
    => /\ result >= 0
       /\ result = 0 <=> oldText = newText

C5_EmptySideIsChange ==
  pc = "returned" /\ oldText # Absent /\ newText # Absent
    => /\ (oldText = <<>> /\ newText # <<>>) => result > 0
       /\ (oldText # <<>> /\ newText = <<>>) => result > 0
       /\ (oldText = <<>> /\ newText = <<>>) => result = 0

\* C6: for non-empty unequal texts of which one is shorter than 1000 characters, the
\* result is max(m, n) when |m - n| > max(m, n) / 2, and the Levenshtein distance of the
\* two texts otherwise.
C6_CharacterLevel ==
  pc = "returned" /\ Compared /\ CharacterLevel
    => result = IF LengthShortcut
                THEN Max(Len(oldText), Len(newText))
                ELSE Levenshtein(oldText, newText)

\* C6 is reached on the dynamic-programming path with texts of different lengths whose
\* distance is smaller than the longer length
C6_Witness ==
  /\ pc = "returned"
  /\ Compared /\ CharacterLevel /\ ~LengthShortcut
  /\ Len(oldText) # Len(newText)
  /\ result > 1
  /\ result < Max(Len(oldText), Len(newText))

\* C7: for unequal texts of at least 1000 characters each, the result is
\* (newWordCount - L) + (oldWordCount - L), the words being the pieces between runs of
\* whitespace and L the length of a longest common subsequence of the two word
\* sequences, which is also the last entry of the full LCS table.
C7_WordLevel ==
  pc = "returned" /\ Compared /\ ~CharacterLevel
    => LET oldWords == splitWhitespace(oldText)
           newWords == splitWhitespace(newText)
           L == LcsLength(oldWords, newWords)
       IN /\ result = (Len(newWords) - L) + (Len(oldWords) - L)
          /\ L = LcsTable(oldWords, newWords)

\* C7 is reached with word sequences that share some words but not all of the shorter one
C7_Witness ==
  /\ pc = "returned"
  /\ Compared /\ ~CharacterLevel
  /\ LET oldWords == splitWhitespace(oldText)
         newWords == splitWhitespace(newText)
         L == LcsLength(oldWords, newWords)
     IN /\ L > 0
        /\ L < Len(oldWords) /\ L < Len(newWords)
        /\ Len(oldWords) # Len(newWords)
        /\ result = (Len(newWords) - L) + (Len(oldWords) - L)

\* C8: for every non-empty S shorter than 1000 characters and every S' # S that is S
\* after one insertion, deletion or substitution of one character, countChanges(S, S') > 0.
C8_SingleEditIsPositive ==
  /\ pc = "returned"
  /\ oldText # Absent /\ newText # Absent
  /\ oldText # <<>> /\ Len(oldText) < CharLevelLimit
  /\ oldText # newText
  /\ IsSingleEdit(oldText, newText)
  => result > 0

-----------------------------------------------------------------------------
(* Properties of extractText, checked under SpecExtract                     *)

\* pat occurs in s
Contains(s, pat) == \E p \in 1..Len(s) : StartsAt(s, p, pat)

\* s has no substring made of '<', one or more characters other than '>', and '>'
TagFree(s) ==
  ~\E i \in 1..Len(s), k \in 1..Len(s) :
      /\ s[i] = "<"
      /\ k >= i + 2
      /\ s[k] = ">"
      /\ \A r \in (i + 1)..(k - 1) : s[r] # ">"

\* s holds one of the five entities that extractText decodes
HasEntity(s) == \E e \in {EntNbsp, EntAmp, EntLt, EntGt, EntQuot} : Contains(s, e)

\* extractText decodes no &lt; and no &gt; of the markup h
NoAngleDecoded(h) ==
  LET t == decodeNbspAmp(withoutTags(h))
  IN ~Contains(t, EntLt) /\ ~Contains(t, EntGt)

\* C9 as stated: extractText(extractText(X)) = extractText(X) for every markup X.
C9_Idempotent ==
  pc = "returned" => extractText(text) = text

\* C9 amended: extracting the extracted text again returns it unchanged exactly when it
\* holds no tag-shaped substring and none of the five entities.
C9_IdempotentIffClean ==
  pc = "returned" => (extractText(text) = text <=> (TagFree(text) /\ ~HasEntity(text)))

\* C9 amended is reached with markup that extraction changes into a non-empty clean text
C9_Witness ==
  /\ pc = "returned"
  /\ html # Absent
  /\ text # <<>> /\ text # html
  /\ withoutTags(html) # html
  /\ TagFree(text) /\ ~HasEntity(text)
  /\ extractText(text) = text

\* C10 as stated: the output of extractText holds no '<', one or more characters other
\* than '>', '>' for any markup X.
C10_TagFree ==
  pc = "returned" => TagFree(text)

\* C10 amended: the output is tag-free whenever extractText decodes no &lt; and no &gt;,
\* that is, when the text left by tag stripping and the &nbsp; and &amp; replacements
\* holds neither entity.
C10_TagFreeUnlessDecoded ==
  pc = "returned" /\ NoAngleDecoded(html) => TagFree(text)

\* C10 amended is reached with markup that holds a tag and leaves a non-empty text
C10_Witness ==
  /\ pc = "returned"
  /\ html # Absent
  /\ ~TagFree(html)
  /\ NoAngleDecoded(html)
  /\ text # <<>>
  /\ TagFree(text)

\* C11: for every input, absent and empty included, the output of extractText has no
\* leading or trailing whitespace, no whitespace character other than the space, and no
\* two spaces in a row.
C11_WhitespaceNormalized ==
  pc = "returned"
    => /\ \A k \in 1..Len(text) : IsSpace(text[k]) => text[k] = " "
       /\ text # <<>> => ~IsSpace(text[1]) /\ ~IsSpace(text[Len(text)])
       /\ \A k \in 1..(Len(text) - 1) : ~(text[k] = " " /\ text[k + 1] = " ")
       /\ Falsy(html) => text = <<>>

\* C11 is reached with markup that holds a run of whitespace other than one space between
\* two words
C11_Witness ==
  /\ pc = "returned"
  /\ html # Absent
  /\ \E k \in 2..(Len(html) - 2) :
       /\ IsSpace(html[k]) /\ IsSpace(html[k + 1]) /\ html[k] # " "
       /\ ~IsSpace(html[k - 1]) /\ ~IsSpace(html[k + 2])
  /\ Contains(text, <<" ">>)

-----------------------------------------------------------------------------
(* Properties of extractText on markup with an inserted region, checked     *)
(* under SpecRegion                                                         *)

\* pat occurs in s, ignoring case
ContainsCI(s, pat) == \E p \in 1..Len(s) : StartsAtCI(s, p, pat)

\* every '<script' and '<style' of s has its closing tag after it in s, and every '<'
\* of s has a '>' after it in s
NoUnterminated(s) ==
  /\ \A p \in 1..Len(s) :
       StartsAtCI(s, p, ScriptOpen)
         => \E k \in (p + Len(ScriptOpen))..Len(s) : StartsAtCI(s, k, ScriptClose)
  /\ \A p \in 1..Len(s) :
       StartsAtCI(s, p, StyleOpen)
         => \E k \in (p + Len(StyleOpen))..Len(s) : StartsAtCI(s, k, StyleClose)
  /\ \A p \in 1..Len(s) : s[p] = "<" => \E k \in (p + 1)..Len(s) : s[k] = ">"

\* the inserted region is a script region
ScriptRegion == StartsAtCI(opening, 1, ScriptOpen)

\* the conditions of the claim on X and S
RegionWellFormed == NoUnterminated(prefix) /\ ~ContainsCI(body, closing)

\* C12 as stated: for X without an unterminated '<script', '<style' or tag opening and S
\* without the closing tag, extractText(X + open + S + close + Y) = extractText(X + Y),
\* for script regions and likewise for style regions.
C12_RegionRemoved ==
  pc = "returned" /\ RegionWellFormed => text = extractText(prefix \o suffix)

\* C12 amended: the equality holds for every script region, and for a style region when
\* neither X nor S holds a '<script' (script regions are removed first, and one that
\* starts in S or swallows a '</style>' of X changes what the style pattern matches).
C12_RegionRemovedScriptFirst ==
  pc = "returned" /\ RegionWellFormed
    /\ (ScriptRegion \/ (~ContainsCI(prefix, ScriptOpen) /\ ~ContainsCI(body, ScriptOpen)))
    => text = extractText(prefix \o suffix)

\* C12 amended is reached with an upper-case script region that holds text and a tag
\* opening, between a prefix and a suffix that both leave text
C12_Witness ==
  /\ pc = "returned"
  /\ RegionWellFormed /\ ScriptRegion
  /\ opening # ScriptOpen \o <<">">>
  /\ body = StyleOpen
  /\ extractText(prefix) # <<>> /\ extractText(suffix) # <<>>
  /\ text = extractText(prefix \o suffix)

-----------------------------------------------------------------------------
(* Properties of the highlight renderer                                     *)

\* the number of wrappers open after the pieces em: openings minus closings
Depth(em) ==
  Cardinality({p \in 1..Len(em) : em[p].kind = "open"})
    - Cardinality({p \in 1..Len(em) : em[p].kind = "close"})

\* the piece p lies between a wrapper's opening and its closing
Inside(em, p) ==
  \E q \in 1..(p - 1) :
      /\ em[q].kind = "open"
      /\ \A r \in (q + 1)..(p - 1) : em[r].kind # "close"

\* the token k was emitted inside a wrapper
Wrapped(em, k) ==
  \E p \in 1..Len(em) : em[p].kind = "token" /\ em[p].index = k /\ Inside(em, p)

\* the values of the tokens, concatenated in order
RECURSIVE Values(_)
Values(tokens) ==
  IF tokens = <<>> THEN <<>> ELSE Head(tokens).value \o Values(Tail(tokens))

\* the characters of s at the positions outside dropped, in order
RECURSIVE Without(_, _, _)
Without(s, dropped, k) ==
  IF k > Len(s) THEN <<>>
  ELSE (IF k \in dropped THEN <<>> ELSE <<s[k]>>) \o Without(s, dropped, k + 1)

\* the character at k matches none of the patterns: it is neither whitespace nor a word
\* character, and no tag starts there
Unmatched(s, k) ==
  /\ s[k] = "<"
  /\ ~\E e \in (k + 2)..Len(s) : s[e] = ">" /\ \A r \in (k + 1)..(e - 1) : s[r] # ">"

\* kept is s with only unmatched characters missing
OnlyUnmatchedMissing(s, kept) ==
  \E dropped \in SUBSET {k \in 1..Len(s) : Unmatched(s, k)} : kept = Without(s, dropped, 1)

\* the markup with the wrappers of the given colour removed
StripWrappers(s, color) == replaceAll(replaceAll(s, spanOpen(color), <<>>), spanClose, <<>>)

\* highlightChanges went through its diff
Diffed == pos > 0

\* C13: every token emitted between a wrapper's opening and its closing is a Word token
\* marked added; no Tag, Whitespace or unchanged Word token is emitted inside a wrapper.
C13_OnlyAddedWordsWrapped ==
  \A p \in 1..Len(hl.emitted) :
      hl.emitted[p].kind = "token" /\ Inside(hl.emitted, p)
        => /\ diff[hl.emitted[p].index].type = "word"
           /\ diff[hl.emitted[p].index].status = "added"

\* C13 is reached with a wrapper that holds an added word and is closed right before a
\* tag
C13_Witness ==
  /\ pc = "returned"
  /\ \E p \in 1..(Len(hl.emitted) - 3) :
        /\ hl.emitted[p].kind = "open"
        /\ hl.emitted[p + 1].kind = "token"
        /\ hl.emitted[p + 2].kind = "close"
        /\ hl.emitted[p + 3].kind = "token"
        /\ diff[hl.emitted[p + 3].index].type = "tag"

\* C14: after each piece the number of openings minus closings is 0 or 1, an opening is
\* emitted only when it is 0, and when the serializer returns it is 0.
C14_NeverNestedNeverOpen ==
  /\ \A n \in 0..Len(hl.emitted) : Depth(SubSeq(hl.emitted, 1, n)) \in {0, 1}
  /\ \A p \in 1..Len(hl.emitted) :
        hl.emitted[p].kind = "open" => Depth(SubSeq(hl.emitted, 1, p - 1)) = 0
  /\ pc = "loop" => (Depth(hl.emitted) = 1) = hl.inHighlight
  /\ pc = "returned" => Depth(hl.emitted) = 0

\* C14 is reached when the markup ends on a wrapper that holds two added words
C14_Witness ==
  /\ pc = "returned"
  /\ Len(hl.emitted) >= 4
  /\ hl.emitted[Len(hl.emitted)].kind = "close"
  /\ hl.emitted[Len(hl.emitted) - 1].kind = "token"
  /\ hl.emitted[Len(hl.emitted) - 2].kind = "token"
  /\ hl.emitted[Len(hl.emitted) - 3].kind = "open"

\* C15: for two different non-empty markups, a token of the new markup is wrapped exactly
\* when it is a Word token whose value is the value of no Word token of the old markup;
\* every token of the new markup is emitted once.
C15_WrappedIffAbsentFromOld ==
  pc = "returned" /\ mode = "changes"
    /\ ~Falsy(viewOld) /\ ~Falsy(viewNew) /\ viewOld # viewNew
    => LET tokens == tokenize(viewNew)
           oldTokens == tokenize(viewOld)
       IN /\ \A k \in 1..Len(tokens) :
                Wrapped(hl.emitted, k)
                  <=> /\ tokens[k].type = "word"
                      /\ ~\E x \in 1..Len(oldTokens) :
                            oldTokens[x].type = "word" /\ oldTokens[x].value = tokens[k].value
          /\ [p \in 1..Len(tokens) |-> p]
               = SelectSeq([p \in 1..Len(hl.emitted) |->
                              IF hl.emitted[p].kind = "token" THEN hl.emitted[p].index ELSE 0],
                           LAMBDA x : x # 0)

\* C15 is reached with a wrapped word next to an unwrapped word that the old markup holds
\* at another index
C15_Witness ==
  /\ pc = "returned" /\ mode = "changes" /\ Diffed
  /\ \E k \in 1..Len(diff) : Wrapped(hl.emitted, k)
  /\ \E k \in 1..Len(diff) :
        /\ diff[k].type = "word"
        /\ ~Wrapped(hl.emitted, k)
        /\ (k > Len(tokenize(viewOld)) \/ tokenize(viewOld)[k].value # diff[k].value)

\* C16 as stated: highlightChanges(A, B, color) is B when A is empty or absent, '' when B
\* is empty or absent, and the input when A and B are identical, without a wrapper.
C16_ReturnsNewWhenOldMissing ==
  pc = "returned" /\ mode = "changes"
    => /\ Falsy(viewOld) => out = viewNew
       /\ Falsy(viewNew) => out = <<>>
       /\ viewOld = viewNew => out = viewNew
       /\ Falsy(viewOld) \/ Falsy(viewNew) \/ viewOld = viewNew => hl.emitted = <<>>

\* C16 amended: '' when B is empty or absent; otherwise B when A is empty or absent or
\* equal to B. No wrapper is inserted in these cases.
C16_EarlyReturns ==
  pc = "returned" /\ mode = "changes"
    => /\ Falsy(viewNew) => out = <<>>
       /\ ~Falsy(viewNew) /\ (Falsy(viewOld) \/ viewOld = viewNew) => out = viewNew
       /\ Falsy(viewOld) \/ Falsy(viewNew) \/ viewOld = viewNew
            => hl.emitted = <<>> /\ ~Diffed

\* C16 amended is reached with identical snapshots that hold a character no token would
\* keep
C16_Witness ==
  /\ pc = "returned" /\ mode = "changes"
  /\ ~Falsy(viewNew) /\ viewOld = viewNew
  /\ Values(tokenize(viewNew)) # viewNew
  /\ out = viewNew

\* C17: the values of the tokens of a markup, concatenated in order, are the markup with
\* only unmatched characters missing, and the output of highlightChanges with its
\* wrappers removed is the new markup with only unmatched characters missing.
C17_Lossless ==
  pc = "returned" /\ Diffed
    => /\ OnlyUnmatchedMissing(oldHtml, Values(tokenize(oldHtml)))
       /\ OnlyUnmatchedMissing(newHtml, Values(tokenize(newHtml)))
       /\ StripWrappers(out, highlightColor) = Values(tokenize(newHtml))
       /\ OnlyUnmatchedMissing(newHtml, StripWrappers(out, highlightColor))

\* C17 is reached with a new markup that loses an unmatched character, keeps whitespace
\* and gets a wrapper
C17_Witness ==
  /\ pc = "returned" /\ Diffed
  /\ StripWrappers(out, highlightColor) # newHtml
  /\ StripWrappers(out, highlightColor) # out
  /\ \E k \in 1..Len(diff) : diff[k].type = "space"

-----------------------------------------------------------------------------
(* Properties of detectChange                                               *)

\* the number of words added or removed between two texts
WordsChanged(old, new) ==
  LET oldWords == splitWhitespace(old)
      newWords == splitWhitespace(new)
      common == longestCommonSubsequenceLength(oldWords, newWords)
  IN (Len(newWords) - common) + (Len(oldWords) - common)

\* C19: no change without a previous snapshot, for identical snapshots and for equal
\* extracted texts; otherwise a change for threshold <= 1, and for threshold > 1 a change
\* exactly when countChanges(oldText, newText) >= threshold.
C19_DetectChange ==
  pc = "returned" /\ mode = "none" /\ oldHtml # NoResult
    => IF Falsy(oldHtml) \/ oldHtml = newHtml \/ extractText(oldHtml) = extractText(newHtml)
       THEN ~hasChanged
       ELSE /\ oldText = extractText(oldHtml)
            /\ newText = extractText(newHtml)
            /\ IF threshold <= 1 THEN hasChanged
               ELSE hasChanged <=> countChanges(oldText, newText) >= threshold

\* C19 is reached with a count that meets a threshold above 1 exactly, for snapshots
\* with tags
C19_Witness ==
  /\ pc = "returned" /\ mode = "none" /\ oldHtml # NoResult
  /\ threshold > 1
  /\ countChanges(oldText, newText) = threshold
  /\ hasChanged
  /\ oldText # oldHtml

\* C20: with the Default sensitivity a change is reported only when at least 100 words
\* were added or removed between the previous and the new extracted text.
C20_DefaultNeedsHundredWords ==
  pc = "returned" /\ mode = "none" /\ oldHtml # NoResult
    /\ threshold = DefaultThreshold /\ hasChanged
    => WordsChanged(extractText(oldHtml), extractText(newHtml)) >= DefaultThreshold

-----------------------------------------------------------------------------
(* Properties of needsScan and getNeedingScan                               *)

\* the page p is one of the pages of the sequence
Among(p, pages) == \E k \in 1..Len(pages) : pages[k] = p

\* C23: getNeedingScan returns, in the order of the store, exactly the pages that need a
\* scan: never one with scanIntervalMinutes 0; otherwise one without lastScanTime;
\* otherwise one with now - lastScanTime >= scanIntervalMinutes * 60000.
C23_NeedsScan ==
  pc = "returned" /\ mode = "pages"
    => /\ \A k \in 1..Len(pageStore) :
             Among(pageStore[k], needing)
               <=> IF pageStore[k].scanIntervalMinutes = 0 THEN FALSE
                   ELSE IF pageStore[k].lastScanTime = Never THEN TRUE
                   ELSE now - pageStore[k].lastScanTime
                          >= pageStore[k].scanIntervalMinutes * 60000
       /\ \A k \in 1..Len(needing) : Among(needing[k], pageStore)
       /\ \A k \in 1..Len(needing), n \in 1..Len(needing) :
             k < n => \E x \in 1..Len(pageStore), y \in 1..Len(pageStore) :
                         x < y /\ pageStore[x] = needing[k] /\ pageStore[y] = needing[n]

\* C23 is reached with a page scanned exactly one interval ago, returned, before a page
\* scanned one millisecond later, left out
C23_Witness ==
  /\ pc = "returned" /\ mode = "pages"
  /\ Len(pageStore) = 2 /\ Len(needing) = 1
  /\ pageStore[1].scanIntervalMinutes = 1 /\ pageStore[2].scanIntervalMinutes = 1
  /\ now - pageStore[1].lastScanTime = MinuteMs
  /\ now - pageStore[2].lastScanTime = MinuteMs - 1
  /\ needing[1] = pageStore[1]

-----------------------------------------------------------------------------
(* Properties of Storage                                                    *)

\* C30: when the write or the full read against chrome.storage.sync fails, Storage.set
\* has written the value to chrome.storage.local, Storage.getAll returns the content of
\* chrome.storage.local, and the caller's promise is fulfilled.
C30_FallsBackToLocal ==
  pc = "returned" /\ mode = "storage"
    /\ storageCall.op \in {"set", "getAll"} /\ storageCall.sync # "resolves"
    => /\ storageResult.status = "fulfilled"
       /\ storageCall.op = "set" => localArea[storageCall.key] = storageCall.value
       /\ storageCall.op = "getAll" => storageResult.value = localArea

-----------------------------------------------------------------------------
(* Properties of scanPage, checked under SpecScan                           *)

\* the stored snapshots of the scanned page
StoredOld == htmlStore[OldKey(ScannedId)]

StoredNew == htmlStore[NewKey(ScannedId)]

\* the last call of scanPage has returned, from its catch or from its try
ScanFailed == scan.pc = "returned" /\ scan.failed

ScanSucceeded == scan.pc = "returned" /\ ~scan.failed

C22_FirstScanIsNoChange ==
  ScanSucceeded /\ Falsy(baseline.newBefore)
    => /\ scan.value = FALSE
       /\ StoredOld = baseline.oldBefore
       /\ StoredPage.state = IF scan.was.state = CHANGED THEN CHANGED ELSE NO_CHANGE
       /\ StoredNew = scan.newHtml

\* C22 is reached by the first successful scan of a page whose earlier scan failed
C22_Witness ==
  /\ ScanSucceeded
  /\ Falsy(baseline.newBefore)
  /\ scan.was.state = ERROR
  /\ StoredPage.state = NO_CHANGE
  /\ ~Falsy(StoredNew)
  /\ Falsy(StoredOld)

\* C24 as stated: after any sequence of scans the stored old snapshot is the markup that
\* was the stored new snapshot right before the most recent scan that detected a change.
C24_OldIsBeforeLastDetected ==
  Idle /\ baseline.detected # NoResult => StoredOld = baseline.detected

\* C24 amended: after any sequence of scans the stored old snapshot is the markup that
\* was the stored new snapshot right before the most recent scan that detected a change
\* while the page was not in state CHANGED.
C24_OldIsBeforeLastFreshChange ==
  Idle /\ baseline.fresh # NoResult => StoredOld = baseline.fresh

\* C24 amended is reached after a scan that detected a further change of a changed page
C24_Witness ==
  /\ scan.pc = "returned"
  /\ scan.hasChanged
  /\ scan.was.state = CHANGED
  /\ baseline.detected # baseline.fresh
  /\ StoredOld = baseline.fresh

\* C27: a successful scan of a page in state CHANGED leaves the state, lastChangeTime
\* and the old snapshot as they were, also when it detects a further change; it replaces
\* the new snapshot, sets lastScanTime and clears errorMessage, and nothing else.
C27_ChangedPageKeepsBaseline ==
  ScanSucceeded /\ scan.was.state = CHANGED
    => /\ StoredPage.state = CHANGED
       /\ StoredPage.lastChangeTime = scan.was.lastChangeTime
       /\ StoredOld = baseline.oldBefore
       /\ StoredNew = scan.newHtml
       /\ StoredPage.lastScanTime >= scan.started
       /\ StoredPage.lastScanTime <= now
       /\ StoredPage.errorMessage = NoMessage
       /\ StoredPage = [scan.was EXCEPT !.lastScanTime = StoredPage.lastScanTime,
                                       !.errorMessage = NoMessage]

\* C27 is reached by a later scan of a changed page that detects a further change
C27_Witness ==
  /\ ScanSucceeded
  /\ scan.was.state = CHANGED
  /\ scan.hasChanged
  /\ StoredNew # baseline.newBefore
  /\ StoredPage.lastScanTime > scan.was.lastScanTime
  /\ StoredPage.lastChangeTime < scan.started

\* the outcomes of fetch after which the loop tries again
Retriable == {"server", "network", "silent"}

\* C28: fetch is called at most 3 times in a scan; a further call follows only a thrown
\* error other than AbortError or a status of 500 or more, after a wait of 1 s and then
\* of 2 s; a 4xx status and an abort are never retried; after a failed third attempt the
\* scan ends in state ERROR.
C28_BoundedRetry ==
  scan.pc \in {"fetch", "sleep", "text", "loadNew", "saveOld", "saveNew", "save"}
    => /\ scan.fetches <= MaxAttempts
       /\ scan.fetches = scan.attempt
       /\ \A k \in 1..Len(scan.retried) : scan.retried[k] \in Retriable
       /\ Len(scan.retried) = Len(scan.waits)
       /\ \A k \in 1..Len(scan.waits) : scan.waits[k] = k * 1000
       /\ Len(scan.waits) = IF scan.pc = "sleep" THEN scan.fetches ELSE scan.fetches - 1
       /\ scan.failed => scan.page.state = ERROR
       /\ scan.pc = "sleep" => scan.attempt < MaxAttempts

\* C28 is reached by a scan that gives up after its third attempt
C28_Witness ==
  /\ scan.pc = "save"
  /\ scan.failed
  /\ scan.fetches = 3
  /\ scan.waits = <<1000, 2000>>
  /\ scan.retried = <<"server", "network">>
  /\ scan.error.message = "HTTP 5xx"
  /\ scan.page.state = ERROR

\* C29: once scanPage has returned, with or without success, the persisted lastScanTime
\* is the time of that scan, so that with an interval above 0 needsScan is false, and
\* getNeedingScan leaves the page out, until a full interval has passed since then.
C29_ScanTimeIsRecorded ==
  /\ scan.pc = "returned"
       => /\ StoredPage.lastScanTime >= scan.started
          /\ StoredPage.lastScanTime <= now
  /\ Idle /\ scans > 0 /\ StoredPage.scanIntervalMinutes > 0
       => /\ StoredPage.lastScanTime # Never
          /\ needsScan(StoredPage, now)
               <=> now - StoredPage.lastScanTime >= StoredPage.scanIntervalMinutes * MinuteMs
          /\ getNeedingScan(<<StoredPage>>, now) # <<>>
               <=> now - StoredPage.lastScanTime >= StoredPage.scanIntervalMinutes * MinuteMs

\* C29 is reached half a minute after a scan, when the page is not due yet
C29_Witness ==
  /\ scan.pc = "returned"
  /\ StoredPage.lastScanTime > scan.was.lastScanTime
  /\ now - StoredPage.lastScanTime = TimeoutMs
  /\ ~needsScan(StoredPage, now)
  /\ getNeedingScan(<<StoredPage>>, now) = <<>>

-----------------------------------------------------------------------------
(* Properties of the service worker, checked under SpecWorker               *)

\* the handlers that run a batch scan
Batches == {k \in 1..Len(tasks) : InBatch(tasks[k])}

\* C25: under every interleaving of alarms and SCAN_ALL messages at most one batch scan
\* is in progress, and isScanning is true as long as one is in progress.
C25_OneBatchScan ==
  /\ Cardinality(Batches) <= 1
  /\ Batches # {} => isScanning

\* C26: once DELETE_PAGE for an id is answered, storage holds no page:<id>, no
\* html:<id>:old and no html:<id>:new at any later time, also when a scan of that page
\* was in flight.
C26_DeletedStaysDeleted ==
  \A id \in answered :
     /\ PageKey(id) \notin DOMAIN syncArea
     /\ OldKey(id) \notin DOMAIN htmlStore
     /\ NewKey(id) \notin DOMAIN htmlStore

=============================================================================
